---- MODULE Spec2Model ----
(***************************************************************************)
(* Verification model of discord-nft-embed-bot.                            *)
(*                                                                         *)
(*   SpecLRU      lib/lru-cache.ts      LRUCache (get/put/delete/clear)     *)
(*   SpecState    state/state.ts        StateManager (load/save/recency)    *)
(*   SpecRandom   index.ts              periodic random posts and           *)
(*                                      getUniqueRandomToken                *)
(*   SpecMsg      index.ts              processMessage, buildEmbedsForMatches*)
(*                                                                         *)
(* Each specification drives one component; the variables of the other     *)
(* components stay at their constructed values.                            *)
(***************************************************************************)
EXTENDS Integers, Sequences, FiniteSets, TLC

VARIABLES
    lruCapacity,   \* LRUCache.capacity
    lruCache,      \* LRUCache.cache : Map<K, V>, a function key -> value
    lruOrder,      \* LRUCache.order : K[], oldest first
    lruLast        \* observation: the last cache call, its arguments, the
                   \* map and order before it, and the value it returned

VARIABLES
    enablePersistence,  \* StateManager.enablePersistence (readonly)
    loaded,             \* StateManager.loaded
    dirty,              \* StateManager.dirty
    state,              \* StateManager.state : StateData
    file,               \* the state file on disk: absent, unparsable, or JSON
    loadPc,             \* position of the load() call in flight
    ld,                 \* load() calls made, and how many of them read the file
    sv,                 \* per save() call: position, JSON text handed to
                        \* writeFile, and how the last call ended
    calls               \* number of mutating calls made so far

VARIABLES
    registry,       \* the configured collections, in parse order
    rotationIndex,  \* rotationIndex : Map<channelId, number>
    fr              \* per timer firing: position in the callback, its locals,
                    \* and what it has drawn, recorded and sent so far

VARIABLES
    msg             \* the processMessage call in flight: position, locals, and
                    \* what it has sent

VARIABLES
    boot,           \* initCollectionSlugs: position, and the collection it is at
    dc,             \* per checkDynamicTokenId call: position, arguments, what
                    \* the refresh returned and what the call returned
    supply,         \* the total supply the remote API reports at present
    pm,             \* observation: the last trigger processMatch handled
    pt,             \* observation: the last message parseMessageMatches
                    \* was given, and the matches it returned
    env             \* the environment initCollections reads: COLLECTIONS and
                    \* the legacy variables

VARIABLES
    rq,             \* the OpenSea call in flight: function, position, arguments,
                    \* userLog, what it returned or threw, and observations
                    \* made when it was called
    slugCache,      \* api/opensea.ts slugCache : LRUCache (map and order)
    slugMap,        \* config/collection.ts slugMap : Map<string, string>
    remote,         \* the slug the remote API has for each contract
    lastSlug        \* observation: the slug the last successful lookup of
                    \* each contract returned

VARIABLES
    usernameCache,  \* api/opensea.ts usernameCache : LRUCache (map and order)
    un,             \* per getUsername call: position, address, what it returned
                    \* or threw, and observations made when it was called
    lastName        \* observation: the username the last successful lookup
                    \* of each address resolved

lruVars == <<lruCapacity, lruCache, lruOrder, lruLast>>
stateVars == <<enablePersistence, loaded, dirty, state, file, loadPc, ld, sv, calls>>
randomVars == <<registry, rotationIndex, fr>>
msgVars == <<msg>>
collVars == <<boot, dc, supply, pm, pt, env>>
slugVars == <<rq, slugCache, slugMap, remote, lastSlug>>
userVars == <<usernameCache, un, lastName>>
apiVars == <<rq, slugCache, slugMap, remote, lastSlug, usernameCache, un, lastName>>

vars == <<lruCapacity, lruCache, lruOrder, lruLast,
          enablePersistence, loaded, dirty, state, file, loadPc, ld, sv, calls,
          registry, rotationIndex, fr, msg, boot, dc, supply, pm, pt, env,
          rq, slugCache, slugMap, remote, lastSlug, usernameCache, un, lastName>>

----------------------------------------------------------------------------
(* Bounds *)

MaxCapacity == 2      \* capacities 1..MaxCapacity
MaxKey == 2           \* defined cache keys 1..MaxKey
MaxTokenId == 2       \* token ids 1..MaxTokenId passed to the state manager
MaxSavers == 1        \* save() calls that may be in flight together
MaxCalls == 2         \* mutating StateManager calls in one run
MaxLoads == 2         \* load() calls in one run
MaxFirings == 2       \* timer firings in one run
MaxMatches == 7       \* triggers matched in one message
MaxSupply == 3        \* total supplies 0..MaxSupply the remote API may report
MaxCheckers == 2      \* checkDynamicTokenId calls in one run
MaxText == 4          \* characters in a message
MaxEntries == 2       \* comma-separated entries in COLLECTIONS
MaxLookups == 3       \* getUsername calls in a run

----------------------------------------------------------------------------
(* Generic helpers for JavaScript Map and Array values *)

\* the JavaScript value undefined when used as a map key / array element
undefined == 0

\* the JavaScript value undefined when stored or returned as a map value
ValUndefined == "undefined"

EmptyMap == [x \in {} |-> ValUndefined]

\* Map.prototype.has
MapHas(m, k) == k \in DOMAIN m

\* Map.prototype.get : undefined for an absent key
MapGet(m, k) == IF k \in DOMAIN m THEN m[k] ELSE ValUndefined

\* map[key] ?? fallback
MapGetOr(m, k, fallback) == IF k \in DOMAIN m THEN m[k] ELSE fallback

\* Map.prototype.set
MapSet(m, k, v) == [x \in (DOMAIN m) \cup {k} |-> IF x = k THEN v ELSE m[x]]

\* Map.prototype.delete
MapDelete(m, k) == [x \in (DOMAIN m) \ {k} |-> m[x]]

\* Map.prototype.size
MapSize(m) == Cardinality(DOMAIN m)

\* Array.prototype.indexOf, 1-based; 0 stands for -1 (not found)
IndexOf(s, e) ==
    IF \E i \in 1..Len(s) : s[i] = e
    THEN CHOOSE i \in 1..Len(s) : s[i] = e /\ \A j \in 1..(i - 1) : s[j] # e
    ELSE 0

\* Array.prototype.splice(index, 1) for a 1-based index inside the array
SpliceOut(s, i) == [j \in 1..(Len(s) - 1) |-> IF j < i THEN s[j] ELSE s[j + 1]]

\* Array.prototype.includes
Includes(s, e) == \E i \in 1..Len(s) : s[i] = e

\* the set of elements of an array
Elems(s) == {s[i] : i \in 1..Len(s)}

\* an array holds no element twice
NoDup(s) == \A i, j \in 1..Len(s) : s[i] = s[j] => i = j

----------------------------------------------------------------------------
(* LRUCache *)

LruKeys == (1..MaxKey) \cup {undefined}
\* values a caller may store: a value may be undefined, null or empty
ValNull == "null"
ValEmpty == ""
LruValues == {"x", ValUndefined, ValNull, ValEmpty}

\* LRUCache.updateOrder : move the key to the most-recent end if it is listed
UpdateOrder(order, key) ==
    LET index == IndexOf(order, key)
    IN  IF index # 0 THEN Append(SpliceOut(order, index), key) ELSE order

\* the map after LRUCache.put
PutCache(cache, order, capacity, key, value) ==
    IF MapHas(cache, key)
    THEN MapSet(cache, key, value)
    ELSE LET lru == IF Len(order) = 0 THEN undefined ELSE Head(order)
             kept == IF MapSize(cache) >= capacity /\ lru # undefined
                     THEN MapDelete(cache, lru)
                     ELSE cache
         IN  MapSet(kept, key, value)

\* the order list after LRUCache.put
PutOrder(cache, order, capacity, key) ==
    IF MapHas(cache, key)
    THEN UpdateOrder(order, key)
    ELSE LET shifted == IF MapSize(cache) >= capacity /\ Len(order) > 0
                        THEN Tail(order)
                        ELSE order
         IN  Append(shifted, key)

\* the order list after LRUCache.delete
DeleteOrder(cache, order, key) ==
    LET index == IndexOf(order, key)
    IN  IF MapHas(cache, key) /\ index # 0 THEN SpliceOut(order, index) ELSE order

LruObs(op, key, value, ret) ==
    [op |-> op, key |-> key, value |-> value, ret |-> ret,
     preCache |-> lruCache, preOrder |-> lruOrder]

\* new LRUCache(capacity) : capacity <= 0 throws, so no cache exists for it
LruConstructed ==
    /\ lruCapacity \in 1..MaxCapacity
    /\ lruCache = EmptyMap
    /\ lruOrder = <<>>
    /\ lruLast = [op |-> "new", key |-> undefined, value |-> ValUndefined,
                  ret |-> ValUndefined, preCache |-> EmptyMap, preOrder |-> <<>>]

\* a get() that takes an entry whose value is undefined for a miss
GetHitsByValue(cache, key) == MapHas(cache, key) /\ cache[key] # ValUndefined

\* LRUCache.get : the test that decides whether the key is marked as used
GetHits(cache, key) == MapHas(cache, key)

LruGet(key) ==
    /\ lruOrder' = IF GetHits(lruCache, key) THEN UpdateOrder(lruOrder, key) ELSE lruOrder
    /\ lruLast' = LruObs("get", key, ValUndefined, MapGet(lruCache, key))
    /\ UNCHANGED <<lruCapacity, lruCache>>

LruHas(key) ==
    /\ lruLast' = LruObs("has", key, ValUndefined, MapHas(lruCache, key))
    /\ UNCHANGED <<lruCapacity, lruCache, lruOrder>>

LruPut(key, value) ==
    /\ lruCache' = PutCache(lruCache, lruOrder, lruCapacity, key, value)
    /\ lruOrder' = PutOrder(lruCache, lruOrder, lruCapacity, key)
    /\ lruLast' = LruObs("put", key, value, ValUndefined)
    /\ UNCHANGED lruCapacity

LruDelete(key) ==
    /\ lruCache' = MapDelete(lruCache, key)
    /\ lruOrder' = DeleteOrder(lruCache, lruOrder, key)
    /\ lruLast' = LruObs("delete", key, ValUndefined, MapHas(lruCache, key))
    /\ UNCHANGED lruCapacity

LruClear ==
    /\ lruCache' = EmptyMap
    /\ lruOrder' = <<>>
    /\ lruLast' = LruObs("clear", undefined, ValUndefined, ValUndefined)
    /\ UNCHANGED lruCapacity

\* LRUCache.size
LruSize == MapSize(lruCache)

\* LRUCache.keys
LruKeysList == lruOrder

----------------------------------------------------------------------------
(* StateManager *)

\* Recent tokens history size per channel
RECENT_TOKENS_LIMIT == 50

Channels == {"c1", "c2"}
TokenIds == 1..MaxTokenId
Firings == 1..MaxFirings
\* save() calls: made directly, or made by a timer firing
Savers == {<<"api", i>> : i \in 1..MaxSavers} \cup {<<"timer", f>> : f \in Firings}
ApiSavers == {<<"api", i>> : i \in 1..MaxSavers}

\* the instant createDefaultState() ran, and the instant of a later save()
CreatedAt == "created"
SavedAt == "saved"

\* createDefaultState
createDefaultState ==
    [version |-> 1, updatedAt |-> CreatedAt, recentTokens |-> EmptyMap,
     lastRandomPost |-> EmptyMap, custom |-> EmptyMap]

\* the array 1, 2, ..., n
Iota(n) == [i \in 1..n |-> i]

\* Array.prototype.filter((id) => id !== tokenId)
FilterOut(s, tokenId) == SelectSeq(s, LAMBDA id : id # tokenId)

\* Array.prototype.slice(0, n)
SliceTo(s, n) == IF Len(s) <= n THEN s ELSE SubSeq(s, 1, n)

\* StateManager.getRecentTokens : this.state.recentTokens[channelId] ?? []
getRecentTokens(st, channelId) ==
    IF channelId \in DOMAIN st.recentTokens THEN st.recentTokens[channelId] ELSE <<>>

\* a wasRecentlySent that looks at the most recent id only
wasRecentlySentHeadOnly(st, channelId, tokenId) ==
    /\ Len(getRecentTokens(st, channelId)) > 0
    /\ Head(getRecentTokens(st, channelId)) = tokenId

\* StateManager.wasRecentlySent
wasRecentlySent(st, channelId, tokenId) ==
    Includes(getRecentTokens(st, channelId), tokenId)

\* an addRecentToken that does not remove the earlier occurrence
AddedRecentKeepingOld(recent, tokenId) ==
    SliceTo(<<tokenId>> \o recent, RECENT_TOKENS_LIMIT)

\* the list StateManager.addRecentToken stores for the channel
AddedRecent(recent, tokenId) ==
    SliceTo(<<tokenId>> \o FilterOut(recent, tokenId), RECENT_TOKENS_LIMIT)

\* the state after StateManager.addRecentToken
addRecentToken(st, channelId, tokenId) ==
    [st EXCEPT !.recentTokens =
        MapSet(@, channelId, AddedRecent(getRecentTokens(st, channelId), tokenId))]

\* StateManager.applyParsedState : every field present in the file replaces
\* the field in memory, as parsed
applyParsedState(st, parsed) ==
    [f \in DOMAIN st |-> IF f \in DOMAIN parsed THEN parsed[f] ELSE st[f]]

\* what the state file may hold when the process starts
NoFile == [kind |-> "ENOENT", data |-> EmptyMap]
CorruptFile == [kind |-> "corrupt", data |-> EmptyMap]
JsonFile(data) == [kind |-> "json", data |-> data]

StartFiles ==
    {NoFile, CorruptFile,
     JsonFile([version |-> 1]),
     JsonFile([version |-> 1, updatedAt |-> SavedAt,
               recentTokens |-> ("c1" :> <<1, 2>>),
               lastRandomPost |-> EmptyMap, custom |-> EmptyMap]),
     JsonFile([version |-> 1, updatedAt |-> SavedAt,
               recentTokens |-> ("c1" :> <<1, 1>>), custom |-> EmptyMap]),
     JsonFile([version |-> 1, updatedAt |-> SavedAt,
               recentTokens |-> ("c2" :> [i \in 1..RECENT_TOKENS_LIMIT |-> MaxTokenId + i]),
               lastRandomPost |-> EmptyMap, custom |-> EmptyMap]),
     JsonFile([version |-> 1, updatedAt |-> SavedAt,
               recentTokens |-> ("c2" :> Iota(RECENT_TOKENS_LIMIT + 1)),
               custom |-> EmptyMap])}

\* no load() call made yet
LoadIdle == [calls |-> 0, reads |-> 0]

\* one load() call made, which read the file
LoadDone == [calls |-> 1, reads |-> 1]

SaverIdle(out) == [pc |-> "idle", json |-> createDefaultState, out |-> out]

\* new StateManager(options), over whatever file is on disk
StateConstructed ==
    /\ enablePersistence \in BOOLEAN
    /\ loaded = FALSE
    /\ dirty = FALSE
    /\ state = createDefaultState
    /\ file \in StartFiles
    /\ loadPc = "idle"
    /\ ld = LoadIdle
    /\ sv = [s \in Savers |-> SaverIdle("none")]
    /\ calls = 0

\* a load() that never skips
LoadSkipsNever(isLoaded) == FALSE

\* load() returns at once when the manager is already loaded
LoadSkips(isLoaded) == isLoaded

\* load() up to its await readFile; a call on a loaded manager, or with
\* persistence disabled, returns at once
LoadCall ==
    /\ ld.calls < MaxLoads
    /\ IF LoadSkips(loaded)
         THEN /\ ld' = [ld EXCEPT !.calls = @ + 1]
              /\ UNCHANGED <<loaded, loadPc>>
         ELSE /\ loaded' = TRUE
              /\ loadPc' = IF enablePersistence THEN "reading" ELSE "idle"
              /\ ld' = [calls |-> ld.calls + 1,
                        reads |-> IF enablePersistence THEN ld.reads + 1 ELSE ld.reads]
    /\ UNCHANGED <<enablePersistence, dirty, state, file, sv, calls>>

\* a load() whose catch block rethrows what is not ENOENT
LoadReadRethrow ==
    /\ loadPc = "reading"
    /\ loadPc' = IF file.kind = "corrupt" THEN "raised" ELSE "idle"
    /\ state' = IF file.kind = "json" THEN applyParsedState(state, file.data) ELSE state
    /\ UNCHANGED <<enablePersistence, loaded, dirty, file, ld, sv, calls>>

\* readFile settles: ENOENT and a JSON.parse error are caught and leave the
\* state as it is, parsed JSON is applied
LoadRead ==
    /\ loadPc = "reading"
    /\ loadPc' = "idle"
    /\ state' = IF file.kind = "json" THEN applyParsedState(state, file.data) ELSE state
    /\ UNCHANGED <<enablePersistence, loaded, dirty, file, ld, sv, calls>>

\* a save() without the dirty check
SaveProceedsIgnoringDirty(d) == enablePersistence

\* save() passes both early returns
SaveProceeds(d) == enablePersistence /\ d

\* the state after save() has run up to its await mkdir, or returned early
SaveCallState(st, d) ==
    IF SaveProceeds(d) THEN [st EXCEPT !.updatedAt = SavedAt] ELSE st

\* the save() call s after it has run up to its await mkdir, or returned early
SaveCallSv(svv, s, d) ==
    [svv EXCEPT ![s] =
        IF SaveProceeds(d) THEN [pc |-> "mkdir", json |-> createDefaultState, out |-> "none"]
        ELSE IF ~enablePersistence THEN SaverIdle("disabled")
        ELSE SaverIdle("clean")]

\* save() up to its await mkdir, or its early return
SaveCall(s) ==
    /\ sv[s].pc = "idle"
    /\ state' = SaveCallState(state, dirty)
    /\ sv' = SaveCallSv(sv, s, dirty)
    /\ UNCHANGED <<enablePersistence, loaded, dirty, file, loadPc, ld, calls>>

\* mkdir settles: on success writeFile is called with JSON.stringify(state)
\* as it is now; on failure the error is logged and save() returns
SaveMkdir(s) ==
    /\ sv[s].pc = "mkdir"
    /\ \/ sv' = [sv EXCEPT ![s] = [pc |-> "write", json |-> state, out |-> "none"]]
       \/ sv' = [sv EXCEPT ![s] = SaverIdle("failed")]
    /\ UNCHANGED <<enablePersistence, loaded, dirty, state, file, loadPc, ld, calls>>

\* writeFile settles: on success the file holds the text and dirty is cleared;
\* on failure the error is logged
SaveWrite(s) ==
    /\ sv[s].pc = "write"
    /\ \/ /\ file' = JsonFile(sv[s].json)
          /\ dirty' = FALSE
          /\ sv' = [sv EXCEPT ![s] = SaverIdle("written")]
       \/ /\ sv' = [sv EXCEPT ![s] = SaverIdle("failed")]
          /\ UNCHANGED <<file, dirty>>
    /\ UNCHANGED <<enablePersistence, loaded, state, loadPc, ld, calls>>

\* addRecentToken(channelId, tokenId)
AddRecentToken(channelId, tokenId) ==
    /\ calls < MaxCalls
    /\ calls' = calls + 1
    /\ state' = addRecentToken(state, channelId, tokenId)
    /\ dirty' = TRUE
    /\ UNCHANGED <<enablePersistence, loaded, file, loadPc, ld, sv>>

\* clearRecentTokens(channelId) : a channel that has no entry is left alone
ClearRecentTokens(channelId) ==
    /\ calls < MaxCalls
    /\ calls' = calls + 1
    /\ IF channelId \in DOMAIN state.recentTokens
       THEN /\ state' = [state EXCEPT !.recentTokens = MapSet(@, channelId, <<>>)]
            /\ dirty' = TRUE
       ELSE UNCHANGED <<state, dirty>>
    /\ UNCHANGED <<enablePersistence, loaded, file, loadPc, ld, sv>>

----------------------------------------------------------------------------
(* Collections and random selection *)

\* Max attempts to find a non-duplicate random token
MAX_RANDOM_ATTEMPTS == 10

Collection(name, prefix, min, max, dynamic) ==
    [name |-> name, prefix |-> prefix, minTokenId |-> min, maxTokenId |-> max,
     dynamicSupply |-> dynamic]

\* registries the bot may run with: a default collection over 1..MaxTokenId
\* beside a one-token collection, or beside a dynamic collection whose
\* placeholder maxTokenId (0) was never replaced
Registries ==
    {<<Collection("Main", "", 1, MaxTokenId, FALSE),
       Collection("Solo", "solo", MaxTokenId, MaxTokenId, FALSE)>>,
     <<Collection("Main", "", 1, MaxTokenId, FALSE),
       Collection("Open", "open", 1, 0, TRUE)>>}

\* randomTokenId : Math.floor(Math.random() * (max - min + 1) + min), every
\* value it can take for Math.random() in [0, 1)
RandomTokenIds(collection) ==
    LET span == collection.maxTokenId - collection.minTokenId + 1
    IN  IF span > 0
        THEN collection.minTokenId..collection.maxTokenId
        ELSE (collection.minTokenId + span)..collection.minTokenId

\* isValidTokenId
isValidTokenId(collection, tokenId) ==
    tokenId >= collection.minTokenId /\ tokenId <= collection.maxTokenId

\* RANDOM_INTERVALS entries: a channel and the registry positions of its
\* target collections
IntervalEntries ==
    {[id |-> 1, channelId |-> "c1", targets |-> <<1, 2>>],
     [id |-> 2, channelId |-> "c2", targets |-> <<1>>]}

\* the same with a second entry for the first channel
SharedChannelEntries ==
    IntervalEntries \cup {[id |-> 3, channelId |-> "c1", targets |-> <<2, 1>>]}

\* getNextCollection : the registry position it returns
NextCollection(rot, channelId, targets) ==
    IF Len(targets) = 1
    THEN targets[1]
    ELSE targets[(MapGetOr(rot, channelId, 0) % Len(targets)) + 1]

\* getNextCollection : rotationIndex afterwards
NextRotation(rot, channelId, targets) ==
    IF Len(targets) = 1
    THEN rot
    ELSE MapSet(rot, channelId, MapGetOr(rot, channelId, 0) + 1)

FiringIdle ==
    [pc |-> "idle", channelId |-> "c1", collection |-> 1,
     attempt |-> 0, tokenId |-> 0,
     draws |-> 0, stale |-> 0, lastAttempt |-> 0, lastDraw |-> 0, fellBack |-> FALSE,
     added |-> FALSE, sendTried |-> FALSE, sent |-> FALSE,
     entry |-> 0, used |-> 0,
     overlaps |-> {}, exhausted |-> FALSE, postedTo |-> "", postedId |-> 0]

\* a firing whose callback is over: its locals are gone, what it did remains
FiringOver(r, pc) ==
    [FiringIdle EXCEPT !.pc = pc, !.added = r.added, !.sendTried = r.sendTried,
                       !.sent = r.sent, !.entry = r.entry, !.used = r.used,
                       !.overlaps = r.overlaps, !.exhausted = r.exhausted,
                       !.postedTo = IF r.sent /\ r.entry # 0 THEN r.channelId ELSE "",
                       !.postedId = IF r.sent /\ r.entry # 0 THEN r.tokenId ELSE 0]

\* (entry, used: the entry whose timer fired and the collection
\* getNextCollection returned for it; overlaps: the firings in flight when
\* this one started; exhausted: getUniqueRandomToken fell back; postedTo,
\* postedId: the channel and the token of the post it sent)
\* the registry and the recency lists the timers may be set up with: nothing
\* recent, one token recent in one channel, every token of the default
\* collection recent in both channels
RandomStarts ==
    {[registry |-> r, recent |-> EmptyMap] : r \in Registries}
    \cup {[registry |-> r, recent |-> ("c1" :> <<1>>)] :
                r \in {q \in Registries : ~q[2].dynamicSupply}}
    \cup {[registry |-> r, recent |-> ("c1" :> Iota(MaxTokenId) @@ "c2" :> Iota(MaxTokenId))] :
                r \in {q \in Registries : q[2].dynamicSupply}}

RandomConstructed ==
    /\ rotationIndex = EmptyMap
    /\ fr = [f \in Firings |-> FiringIdle]

\* observation: the id is in the channel's recency list as it is now
InRecency(channelId, tokenId) ==
    /\ channelId \in DOMAIN state.recentTokens
    /\ \E i \in 1..Len(state.recentTokens[channelId]) : state.recentTokens[channelId][i] = tokenId

\* no firing is inside getUniqueRandomToken: the call is synchronous, so
\* nothing else runs until it has returned
NoneSelecting == \A f \in Firings : fr[f].pc \notin {"select", "selected"}

\* the timer callback of one of the entries from its start into
\* getUniqueRandomToken; the observations are made for an observed run only
TimerFireFrom(f, entries, observed) ==
    /\ fr[f].pc = "idle"
    /\ \A g \in 1..(f - 1) : fr[g].pc # "idle"
    /\ NoneSelecting
    /\ \E e \in entries :
        /\ fr' = [fr EXCEPT ![f] =
                    IF observed
                    THEN [@ EXCEPT
                            !.pc = "select", !.channelId = e.channelId,
                            !.collection = NextCollection(rotationIndex, e.channelId, e.targets),
                            !.entry = e.id,
                            !.overlaps = {g \in Firings :
                                            fr[g].pc \notin {"idle", "done", "rejected"}},
                            !.used = NextCollection(rotationIndex, e.channelId, e.targets)]
                    ELSE [@ EXCEPT
                            !.pc = "select", !.channelId = e.channelId,
                            !.collection = NextCollection(rotationIndex, e.channelId, e.targets)]]
        /\ rotationIndex' = NextRotation(rotationIndex, e.channelId, e.targets)
    /\ UNCHANGED <<registry>>
    /\ UNCHANGED stateVars

TimerFire(f) == TimerFireFrom(f, IntervalEntries, FALSE)

TimerFireObserved(f) == TimerFireFrom(f, SharedChannelEntries, TRUE)

\* getUniqueRandomToken returns tokenId
AfterSelect(r, tokenId) == [r EXCEPT !.tokenId = tokenId, !.pc = "selected"]

\* the callback once getUniqueRandomToken has returned: buildEmbed runs up to
\* its first await, or returns undefined for an invalid token, in which case
\* the callback is over
TimerBuild(f) ==
    /\ fr[f].pc = "selected"
    /\ fr' = [fr EXCEPT ![f] =
                IF isValidTokenId(registry[fr[f].collection], fr[f].tokenId)
                THEN [FiringIdle EXCEPT
                        !.channelId = fr[f].channelId, !.collection = fr[f].collection,
                        !.tokenId = fr[f].tokenId, !.pc = "slug",
                        !.entry = fr[f].entry, !.used = fr[f].used,
                        !.overlaps = fr[f].overlaps,
                        !.exhausted = fr[f].entry # 0 /\ fr[f].fellBack]
                ELSE FiringOver(fr[f], "done")]
    /\ UNCHANGED <<registry, rotationIndex>>
    /\ UNCHANGED stateVars

\* a loop that does not count an attempt whose draw was recent
SelectAttemptNoCount(f) ==
    /\ fr[f].pc = "select"
    /\ fr[f].attempt < MAX_RANDOM_ATTEMPTS
    /\ \E tokenId \in RandomTokenIds(registry[fr[f].collection]) :
        LET drawn == [fr[f] EXCEPT
                        !.draws = @ + 1, !.lastAttempt = tokenId, !.lastDraw = tokenId,
                        !.stale = @ + IF InRecency(fr[f].channelId, tokenId) THEN 1 ELSE 0]
        IN  fr' = [fr EXCEPT ![f] =
                IF ~wasRecentlySent(state, fr[f].channelId, tokenId)
                THEN AfterSelect(drawn, tokenId)
                ELSE drawn]
    /\ UNCHANGED <<registry, rotationIndex>>
    /\ UNCHANGED stateVars

\* one pass of the loop of getUniqueRandomToken
SelectAttempt(f) ==
    /\ fr[f].pc = "select"
    /\ fr[f].attempt < MAX_RANDOM_ATTEMPTS
    /\ \E tokenId \in RandomTokenIds(registry[fr[f].collection]) :
        LET drawn == [fr[f] EXCEPT
                        !.draws = @ + 1, !.lastAttempt = tokenId, !.lastDraw = tokenId,
                        !.stale = @ + IF InRecency(fr[f].channelId, tokenId) THEN 1 ELSE 0]
        IN  fr' = [fr EXCEPT ![f] =
                IF ~wasRecentlySent(state, fr[f].channelId, tokenId)
                THEN AfterSelect(drawn, tokenId)
                ELSE [drawn EXCEPT !.attempt = @ + 1]]
    /\ UNCHANGED <<registry, rotationIndex>>
    /\ UNCHANGED stateVars

\* a fallback that returns the last attempted draw instead of drawing again
SelectFallbackLastAttempt(f) ==
    /\ fr[f].pc = "select"
    /\ fr[f].attempt >= MAX_RANDOM_ATTEMPTS
    /\ fr' = [fr EXCEPT ![f] = AfterSelect([fr[f] EXCEPT !.fellBack = TRUE], fr[f].lastAttempt)]
    /\ UNCHANGED <<registry, rotationIndex>>
    /\ UNCHANGED stateVars

\* getUniqueRandomToken after the loop ran out: one more draw, returned as is
SelectFallback(f) ==
    /\ fr[f].pc = "select"
    /\ fr[f].attempt >= MAX_RANDOM_ATTEMPTS
    /\ \E tokenId \in RandomTokenIds(registry[fr[f].collection]) :
        fr' = [fr EXCEPT ![f] =
                AfterSelect([fr[f] EXCEPT !.draws = @ + 1, !.lastDraw = tokenId,
                                          !.fellBack = TRUE], tokenId)]
    /\ UNCHANGED <<registry, rotationIndex>>
    /\ UNCHANGED stateVars

\* buildEmbed: getSlugForCollection settles; without a slug buildEmbed
\* returns undefined and the callback is over
TimerSlug(f) ==
    /\ fr[f].pc = "slug"
    /\ NoneSelecting
    /\ \E slug \in BOOLEAN :
        fr' = [fr EXCEPT ![f] = IF slug THEN [@ EXCEPT !.pc = "nft"]
                                 ELSE FiringOver(@, "done")]
    /\ UNCHANGED <<registry, rotationIndex>>
    /\ UNCHANGED stateVars

\* buildEmbed: fetchNFT settles; NFTNotFoundError is not caught by buildEmbed
\* nor by the callback, whose promise rejects
TimerFetchNFT(f) ==
    /\ fr[f].pc = "nft"
    /\ NoneSelecting
    /\ \E found \in BOOLEAN :
        fr' = [fr EXCEPT ![f] = IF found THEN [@ EXCEPT !.pc = "meta"]
                                 ELSE FiringOver(@, "rejected")]
    /\ UNCHANGED <<registry, rotationIndex>>
    /\ UNCHANGED stateVars

\* the callback once buildEmbed has returned an embed: addRecentToken, then
\* save() up to its first await
EmbedBuilt(f) ==
    /\ state' = SaveCallState(addRecentToken(state, fr[f].channelId, fr[f].tokenId), TRUE)
    /\ dirty' = TRUE
    /\ sv' = SaveCallSv(sv, <<"timer", f>>, TRUE)
    /\ fr' = [fr EXCEPT ![f] = [@ EXCEPT !.pc = "save", !.added = TRUE]]

\* buildEmbed: fetchLastSale, fetchBestOffer and fetchBestListing have all
\* settled (none of them throws); getUsername is awaited next if the item
\* lists an owner
TimerMetadata(f) ==
    /\ fr[f].pc = "meta"
    /\ NoneSelecting
    /\ \/ /\ fr' = [fr EXCEPT ![f] = [@ EXCEPT !.pc = "owner"]]
          /\ UNCHANGED <<state, dirty, sv>>
       \/ EmbedBuilt(f)
    /\ UNCHANGED <<registry, rotationIndex>>
    /\ UNCHANGED <<enablePersistence, loaded, file, loadPc, ld, calls>>

\* buildEmbed: getUsername settles (it never throws)
TimerOwner(f) ==
    /\ fr[f].pc = "owner"
    /\ NoneSelecting
    /\ EmbedBuilt(f)
    /\ UNCHANGED <<registry, rotationIndex>>
    /\ UNCHANGED <<enablePersistence, loaded, file, loadPc, ld, calls>>

\* the callback once save() has returned: sendEmbed; channel.send resolves,
\* or rejects and the callback's promise with it
TimerSend(f) ==
    /\ fr[f].pc = "save"
    /\ sv[<<"timer", f>>].pc = "idle"
    /\ NoneSelecting
    /\ \E ok \in BOOLEAN :
        fr' = [fr EXCEPT ![f] =
                FiringOver([@ EXCEPT !.sendTried = TRUE, !.sent = ok],
                           IF ok THEN "done" ELSE "rejected")]
    /\ sv' = [sv EXCEPT ![<<"timer", f>>] = SaverIdle("none")]
    /\ UNCHANGED <<registry, rotationIndex>>
    /\ UNCHANGED <<enablePersistence, loaded, dirty, state, file, loadPc, ld, calls>>

\* the save() of a firing: mkdir and writeFile settle
TimerSaveMkdir(f) ==
    /\ NoneSelecting
    /\ SaveMkdir(<<"timer", f>>)
    /\ UNCHANGED randomVars

TimerSaveWrite(f) ==
    /\ NoneSelecting
    /\ SaveWrite(<<"timer", f>>)
    /\ UNCHANGED randomVars

----------------------------------------------------------------------------
(* Collection registry: parsing, start-up and dynamic supply *)

\* the maxTokenId a collection gets when its maxId field is not a number
\* other than 0
DefaultMaxTokenId == 10000

\* a colon-separated field of a COLLECTIONS entry: digits, "*", or other text
NumField(n) == [kind |-> "num", n |-> n]
StarField == [kind |-> "star", n |-> 0]
TextField == [kind |-> "text", n |-> 0]

ConfigFields == {StarField, TextField} \cup {NumField(n) : n \in 0..MaxTokenId}

\* Number(field) || default : NaN and 0 are falsy
NumberOr(field, default) ==
    IF field.kind = "num" /\ field.n # 0 THEN field.n ELSE default

\* extractCollectionFields : the bounds and the dynamicSupply flag
extractCollectionFields(name, prefix, minField, maxField) ==
    Collection(name, prefix,
               NumberOr(minField, 0),
               IF maxField = StarField THEN 0 ELSE NumberOr(maxField, DefaultMaxTokenId),
               maxField = StarField)

\* the registries initCollections may build: a default collection and a
\* prefixed one with any minId and maxId fields
ParsedRegistries ==
    {<<extractCollectionFields("Main", "", NumField(1), NumField(MaxTokenId)),
       extractCollectionFields("Open", "open", minField, maxField)>> :
        minField \in ConfigFields, maxField \in ConfigFields}

\* fetchTotalSupply : the supply the remote API reports, or undefined (-1)
TotalSupplyResults(current) == {current, -1}

\* the remote collection mints or burns an item
SupplyChange ==
    /\ \E s \in {supply - 1, supply + 1} \cap (0..MaxSupply) : supply' = s
    /\ UNCHANGED <<registry, boot, dc, pm, pt, env>>

\* initCollectionSlugs as it runs: the collection it is at, and (observation)
\* the collections whose slug it has and the total supply it stored for each
BootStart == [pc |-> "slug", i |-> 1, slugs |-> {}, supplies |-> EmptyMap]
BootReady == [pc |-> "ready", i |-> 0, slugs |-> {}, supplies |-> EmptyMap]
BootFailed == [pc |-> "failed", i |-> 0, slugs |-> {}, supplies |-> EmptyMap]

\* initCollectionSlugs : on to the next collection, or done
BootAdvance(b) ==
    IF b.i = Len(registry) THEN [b EXCEPT !.pc = "ready", !.i = 0]
    ELSE [b EXCEPT !.pc = "slug", !.i = b.i + 1]

\* initCollectionSlugs : getSlugForCollection settles; without a slug it
\* throws, for a dynamic collection fetchTotalSupply is awaited next
BootSlug ==
    /\ boot.pc = "slug"
    /\ \E slug \in BOOLEAN :
        LET withSlug == [boot EXCEPT !.slugs = @ \cup {boot.i}]
        IN  boot' = IF ~slug THEN [boot EXCEPT !.pc = "failed", !.i = 0]
                    ELSE IF registry[boot.i].dynamicSupply
                         THEN [withSlug EXCEPT !.pc = "supply"]
                    ELSE BootAdvance(withSlug)
    /\ UNCHANGED <<registry, dc, supply, pm, pt, env>>

\* initCollectionSlugs : fetchTotalSupply settles; undefined makes it throw,
\* a number becomes the collection's maxTokenId
BootSupply ==
    /\ boot.pc = "supply"
    /\ \E totalSupply \in TotalSupplyResults(supply) :
        IF totalSupply = -1
        THEN boot' = [boot EXCEPT !.pc = "failed", !.i = 0] /\ UNCHANGED registry
        ELSE /\ registry' = [registry EXCEPT ![boot.i].maxTokenId = totalSupply]
             /\ boot' = BootAdvance([boot EXCEPT !.supplies = (boot.i :> totalSupply) @@ @])
    /\ UNCHANGED <<dc, supply, pm, pt, env>>

\* main : a throw of initCollectionSlugs rejects main before the client is
\* created; the handlers are registered and the client logs in after it
\* returned
HandlersAlways(b) == TRUE

HandlersRegistered(b) == b.pc = "ready"

\* main : the ClientReady handler calls setupRandomIntervals, so a timer
\* fires only once the handlers are registered
TimerFireStarted(f) == HandlersRegistered(boot) /\ TimerFire(f)

Checkers == 1..MaxCheckers

\* token ids a caller may ask about
CheckTokenIds == 0..(MaxTokenId + 1)

CheckIdle ==
    [pc |-> "idle", collection |-> 1, tokenId |-> 0, maxAtCall |-> 0,
     requests |-> 0, got |-> -1, result |-> "none"]

\* a checkDynamicTokenId that refreshes whatever the dynamicSupply flag
CheckImmediateAnyCollection(collection, tokenId) ==
    IF tokenId < collection.minTokenId THEN "false"
    ELSE IF tokenId <= collection.maxTokenId THEN "true"
    ELSE "refresh"

\* checkDynamicTokenId up to its first await: what it returns at once, or
\* that it goes on to refresh
CheckImmediate(collection, tokenId) ==
    IF tokenId < collection.minTokenId THEN "false"
    ELSE IF tokenId <= collection.maxTokenId THEN "true"
    ELSE IF ~collection.dynamicSupply THEN "false"
    ELSE "refresh"

\* a checkDynamicTokenId that stores whatever supply it fetched
RefreshedMaxAlways(maxTokenId, totalSupply) == totalSupply

\* checkDynamicTokenId : the maxTokenId after a refresh that returned
\* totalSupply
RefreshedMax(maxTokenId, totalSupply) ==
    IF totalSupply > maxTokenId THEN totalSupply ELSE maxTokenId

\* a checkDynamicTokenId that answers from the supply it fetched alone
CheckAgainFetchedOnly(tokenId, maxTokenId, totalSupply) ==
    IF tokenId <= totalSupply THEN "true" ELSE "false"

\* checkDynamicTokenId : the check against the updated maxTokenId
CheckAgain(tokenId, maxTokenId, totalSupply) ==
    IF tokenId <= RefreshedMax(maxTokenId, totalSupply) THEN "true" ELSE "false"

\* checkDynamicTokenId(collection, tokenId) up to its first await
CheckCall(c, collection, tokenId) ==
    /\ HandlersRegistered(boot)
    /\ dc[c].pc = "idle"
    /\ \A d \in 1..(c - 1) : dc[d].pc # "idle"
    /\ LET now == CheckImmediate(registry[collection], tokenId)
           call == [CheckIdle EXCEPT !.collection = collection, !.tokenId = tokenId,
                                     !.maxAtCall = registry[collection].maxTokenId]
       IN  dc' = [dc EXCEPT ![c] =
                    IF now = "refresh" THEN [call EXCEPT !.pc = "slug"]
                    ELSE [call EXCEPT !.pc = "done", !.result = now]]
    /\ UNCHANGED <<registry, boot, supply, pm, pt, env>>

\* getSlugForCollection settles; without a slug the call returns false
CheckSlug(c) ==
    /\ dc[c].pc = "slug"
    /\ \E slug \in BOOLEAN :
        dc' = [dc EXCEPT ![c] =
                IF slug THEN [@ EXCEPT !.pc = "supply", !.requests = 1]
                ELSE [@ EXCEPT !.pc = "done", !.result = "false"]]
    /\ UNCHANGED <<registry, boot, supply, pm, pt, env>>

\* fetchTotalSupply settles; undefined makes the call return false, a number
\* above maxTokenId replaces it, and the id is checked again
CheckSupply(c) ==
    /\ dc[c].pc = "supply"
    /\ \E totalSupply \in TotalSupplyResults(supply) :
        LET col == dc[c].collection
            maxTokenId == registry[col].maxTokenId
        IN  IF totalSupply = -1
            THEN /\ dc' = [dc EXCEPT ![c] = [@ EXCEPT !.pc = "done", !.result = "false"]]
                 /\ UNCHANGED registry
            ELSE /\ registry' = [registry EXCEPT
                                    ![col].maxTokenId = RefreshedMax(maxTokenId, totalSupply)]
                 /\ dc' = [dc EXCEPT ![c] =
                            [@ EXCEPT !.pc = "done", !.got = totalSupply,
                                      !.result = CheckAgain(dc[c].tokenId, maxTokenId,
                                                            totalSupply)]]
    /\ UNCHANGED <<boot, supply, pm, pt, env>>

\* triggers a message may hold for a collection: an explicit id, or one of
\* the random keywords
TriggerIds == 0..(MaxTokenId + 1)

PmNone == [collection |-> 0, isRandom |-> FALSE, tokenId |-> 0, pushed |-> FALSE]

\* a shouldAllowForDynamicCheck that lets any id of a dynamic collection through
shouldAllowAnyDynamic(collection, tokenId, isRandom) ==
    ~isRandom /\ collection.dynamicSupply

\* shouldAllowForDynamicCheck
shouldAllowForDynamicCheck(collection, tokenId, isRandom) ==
    ~isRandom /\ collection.dynamicSupply /\ tokenId > collection.maxTokenId

\* processMatch : whether the match is pushed
Pushes(collection, tokenId, isRandom) ==
    isValidTokenId(collection, tokenId)
    \/ shouldAllowForDynamicCheck(collection, tokenId, isRandom)

\* processMatch for a trigger with the prefix of collection: resolveTokenId
\* draws for a random keyword and takes the digits otherwise (one trigger
\* is followed in a run: processMatch keeps nothing from one to the next)
ProcessMatch(collection, isRandom, explicit) ==
    /\ HandlersRegistered(boot)
    /\ pm = PmNone
    /\ \E tokenId \in IF isRandom THEN RandomTokenIds(registry[collection]) ELSE {explicit} :
        pm' = [collection |-> collection, isRandom |-> isRandom, tokenId |-> tokenId,
               pushed |-> Pushes(registry[collection], tokenId, isRandom)]
    /\ UNCHANGED <<registry, boot, dc, supply, pt, env>>

----------------------------------------------------------------------------
(* Message handling *)

\* Discord limits
MAX_EMBEDS_PER_MESSAGE == 6

\* a TokenMatch
Match(collection, tokenId) == [collection |-> collection, tokenId |-> tokenId]

\* matches a message may yield: the first token of either collection (for the
\* dynamic collection with its placeholder maxTokenId an id out of range,
\* which parseMessageMatches lets through)
MatchPool == {Match(1, 1), Match(2, MaxTokenId)}

RECURSIVE SeqsUpTo(_, _)
SeqsUpTo(S, n) ==
    IF n = 0 THEN {<<>>}
    ELSE LET shorter == SeqsUpTo(S, n - 1)
         IN  shorter \cup {Append(q, x) : q \in {p \in shorter : Len(p) = n - 1}, x \in S}

MatchLists == SeqsUpTo(MatchPool, MaxMatches)

MsgIdle ==
    [pc |-> "idle", matches |-> <<>>, i |-> 0, embeds |-> <<>>,
     nftFailed |-> FALSE, caught |-> FALSE, replyTried |-> FALSE, reply |-> <<>>,
     fetched |-> 0]

MsgConstructed == msg = MsgIdle

\* a processMessage that replies whatever the number of embeds
AfterLoopAlwaysReply(embeds) == "reply"

\* processMessage after buildEmbedsForMatches: it replies only if there is
\* an embed
AfterLoop(embeds) == IF Len(embeds) > 0 THEN "reply" ELSE "done"

\* buildEmbedsForMatches: the for loop from iteration i up to the next await
\* inside buildEmbed (an invalid token makes buildEmbed return undefined at
\* once), or to the end of the loop; then processMessage replies if there
\* is any embed
\* a buildEmbedsForMatches that loops over every match
MatchesUnsliced(matches) == matches

\* buildEmbedsForMatches : matches.slice(0, MAX_EMBEDS_PER_MESSAGE)
MatchesSliced(matches) == SliceTo(matches, MAX_EMBEDS_PER_MESSAGE)

RECURSIVE MsgLoop(_, _)
MsgLoop(r, i) ==
    IF i > Len(MatchesSliced(r.matches))
    THEN [r EXCEPT !.i = i, !.pc = AfterLoop(r.embeds)]
    ELSE IF ~isValidTokenId(registry[r.matches[i].collection], r.matches[i].tokenId)
    THEN MsgLoop(r, i + 1)
    ELSE [r EXCEPT !.i = i, !.pc = "slug"]

\* processMessage's catch block: the error is logged, nothing is sent
MsgCaught(r) == [r EXCEPT !.pc = "done", !.caught = TRUE]

\* the MessageCreate handler: a bot's message is ignored, a message without
\* matches returns, otherwise the loop starts
MessageCreate(bot, matches) ==
    /\ msg.pc = "idle"
    /\ msg' = IF bot \/ Len(matches) = 0
              THEN [MsgIdle EXCEPT !.pc = "done", !.matches = matches]
              ELSE MsgLoop([MsgIdle EXCEPT !.matches = matches], 1)

\* buildEmbed: getSlugForCollection settles; without a slug buildEmbed
\* returns undefined
MsgSlug ==
    /\ msg.pc = "slug"
    /\ \E slug \in BOOLEAN :
        msg' = IF slug THEN [msg EXCEPT !.pc = "nft"] ELSE MsgLoop(msg, msg.i + 1)

\* a buildEmbed that goes on to the metadata and the owner whatever
\* fetchNFT did
AfterFetchNFTAlwaysOn(found) == "meta"

\* buildEmbed after await fetchNFT: it goes on only if fetchNFT resolved
AfterFetchNFT(found) == IF found THEN "meta" ELSE "caught"

\* buildEmbed: fetchNFT settles; NFTNotFoundError propagates through
\* buildEmbed and buildEmbedsForMatches to processMessage's catch
\* (fetched: the iteration whose item fetch resolved last)
MsgFetchNFT ==
    /\ msg.pc = "nft"
    /\ \E found \in BOOLEAN :
        msg' = LET r == [msg EXCEPT !.nftFailed = ~found,
                                    !.fetched = IF found THEN msg.i ELSE @]
               IN  IF AfterFetchNFT(found) = "meta" THEN [r EXCEPT !.pc = "meta"]
                   ELSE MsgCaught(r)

\* buildEmbed returns the embed: it is pushed and the loop goes on
MsgEmbedBuilt(r) == MsgLoop([r EXCEPT !.embeds = Append(@, r.matches[r.i])], r.i + 1)

\* buildEmbed: fetchLastSale, fetchBestOffer and fetchBestListing have all
\* settled; getUsername is awaited next if the item lists an owner
MsgMetadata ==
    /\ msg.pc = "meta"
    /\ \/ msg' = [msg EXCEPT !.pc = "owner"]
       \/ msg' = MsgEmbedBuilt(msg)

\* buildEmbed: getUsername settles (it never throws)
MsgOwner ==
    /\ msg.pc = "owner"
    /\ msg' = MsgEmbedBuilt(msg)

\* message.reply({ embeds }) settles; a rejection is caught
MsgReply ==
    /\ msg.pc = "reply"
    /\ \E ok \in BOOLEAN :
        msg' = IF ok THEN [msg EXCEPT !.pc = "done", !.replyTried = TRUE, !.reply = msg.embeds]
               ELSE MsgCaught([msg EXCEPT !.replyTried = TRUE])

----------------------------------------------------------------------------
(* Trigger matching *)

\* characters a message may hold: the hash, the random keyword "?", a blank,
\* a digit, and the letters of the prefixes, one of them in upper case too
Chars == {"#", "?", " ", "1", "p", "P", "q"}

Texts == SeqsUpTo(Chars, MaxText)

PtNone == [content |-> <<"none">>, matches |-> <<>>]

\* \d
IsDigit(c) == c = "1"

\* \w ; anything else is \W
IsWordChar(c) == c \in {"1", "p", "P", "q"}

\* String.prototype.toLowerCase
toLowerCase(c) == IF c = "P" THEN "p" ELSE c

\* Number(idPart) for a run of digits text[from..to]
RECURSIVE NumberOfDigits(_, _, _)
NumberOfDigits(text, from, to) ==
    IF to < from THEN 0
    ELSE 10 * NumberOfDigits(text, from, to - 1) + 1

\* \d+ is greedy: the position after the run of digits that starts at k
RECURSIVE DigitsEnd(_, _)
DigitsEnd(text, k) ==
    IF k <= Len(text) /\ IsDigit(text[k]) THEN DigitsEnd(text, k + 1) ELSE k

\* (?:\s|\n|\W|$) at position e : a character that is no word character,
\* or the end of the text
Terminated(text, e) == e > Len(text) \/ ~IsWordChar(text[e])

\* #(random|rand|\?|\d+) followed by the terminator, the hash at h : the
\* position after the id part, or 0 if there is no such match (giving back
\* digits never helps: what then follows is a digit, a word character)
IdPartEnd(text, h) ==
    IF h + 1 > Len(text) \/ text[h] # "#" THEN 0
    ELSE IF text[h + 1] = "?" /\ Terminated(text, h + 2) THEN h + 2
    ELSE IF IsDigit(text[h + 1]) /\ Terminated(text, DigitsEnd(text, h + 1))
    THEN DigitsEnd(text, h + 1)
    ELSE 0

\* buildMatchRegex : the prefix alternation, matched without regard to case
\* (flag i), holds every prefix but the empty one
PrefixAt(reg, text, s) ==
    /\ s <= Len(text)
    /\ \E i \in 1..Len(reg) : reg[i].prefix # "" /\ reg[i].prefix = toLowerCase(text[s])

NoMatch == [found |-> FALSE, prefix |-> "", hash |-> 0, idEnd |-> 0, lastIndex |-> 0]

\* the regex tried at position s : the optional prefix is tried first, the
\* terminating character is part of the match
MatchAt(reg, text, s) ==
    LET withPrefix == PrefixAt(reg, text, s) /\ IdPartEnd(text, s + 1) # 0
        hash == IF withPrefix THEN s + 1 ELSE s
        idEnd == IdPartEnd(text, hash)
    IN  IF s > Len(text) \/ idEnd = 0 THEN NoMatch
        ELSE [found |-> TRUE,
              prefix |-> IF withPrefix THEN text[s] ELSE "",
              hash |-> hash,
              idEnd |-> idEnd,
              lastIndex |-> IF idEnd > Len(text) THEN idEnd ELSE idEnd + 1]

\* regex.exec(content) with lastIndex = from : the leftmost match
RECURSIVE Exec(_, _, _)
Exec(reg, text, from) ==
    IF from > Len(text) THEN NoMatch
    ELSE IF MatchAt(reg, text, from).found THEN MatchAt(reg, text, from)
    ELSE Exec(reg, text, from + 1)

\* getDefaultCollection : the collection under the empty prefix, else the
\* first one of the Map
getDefaultCollection(reg) ==
    IF \E i \in 1..Len(reg) : reg[i].prefix = ""
    THEN CHOOSE i \in 1..Len(reg) : reg[i].prefix = ""
    ELSE 1

\* a getCollectionByPrefix that looks the prefix up as it was typed
getCollectionByPrefixAsTyped(reg, prefix) ==
    IF \E i \in 1..Len(reg) : reg[i].prefix = prefix
    THEN CHOOSE i \in 1..Len(reg) : reg[i].prefix = prefix
    ELSE 0

\* getCollectionByPrefix : collectionMap.get(prefix.toLowerCase()), 0 for
\* undefined
getCollectionByPrefix(reg, prefix) ==
    IF \E i \in 1..Len(reg) : reg[i].prefix = toLowerCase(prefix)
    THEN CHOOSE i \in 1..Len(reg) : reg[i].prefix = toLowerCase(prefix)
    ELSE 0

\* processMatch : getCollectionByPrefix(prefix) ?? getDefaultCollection()
ResolveCollection(reg, prefix) ==
    IF getCollectionByPrefix(reg, prefix) # 0
    THEN getCollectionByPrefix(reg, prefix)
    ELSE getDefaultCollection(reg)

\* a match pushed by processMatch, with the position of its hash in the text
MatchAtPos(collection, tokenId, at) ==
    [collection |-> collection, tokenId |-> tokenId, at |-> at]

\* parseMessageMatches : the exec loop from lastIndex = from; every result
\* it can return, one per outcome of the random draws
RECURSIVE ParseFrom(_, _, _)
ParseFrom(reg, text, from) ==
    LET m == Exec(reg, text, from)
    IN  IF ~m.found THEN {<<>>}
        ELSE LET col == ResolveCollection(reg, m.prefix)
                 isRandom == text[m.hash + 1] = "?"
                 ids == IF isRandom THEN RandomTokenIds(reg[col])
                        ELSE {NumberOfDigits(text, m.hash + 1, m.idEnd - 1)}
                 heads == {IF Pushes(reg[col], id, isRandom)
                           THEN <<MatchAtPos(col, id, m.hash)>> ELSE <<>> : id \in ids}
             IN  {h \o t : h \in heads, t \in ParseFrom(reg, text, m.lastIndex)}

\* registries whose prefixes are single letters: a default collection and a
\* prefixed one, two prefixed ones, a default one and a dynamic one
TextRegistries ==
    {<<Collection("Main", "", 1, MaxTokenId, FALSE),
       Collection("Pre", "p", 1, MaxTokenId, FALSE)>>,
     <<Collection("Que", "q", 1, 1, FALSE),
       Collection("Pre", "p", 1, MaxTokenId, FALSE)>>,
     <<Collection("Main", "", 1, MaxTokenId, FALSE),
       Collection("Open", "p", 1, 0, TRUE)>>}

\* parseMessageMatches(content) (one message is followed in a run)
ParseMessageMatches(content) ==
    /\ HandlersRegistered(boot)
    /\ pt = PtNone
    /\ \E matches \in ParseFrom(registry, content, 1) :
        pt' = [content |-> content, matches |-> matches]
    /\ UNCHANGED <<registry, boot, dc, supply, pm, env>>

----------------------------------------------------------------------------
(* Configuration: COLLECTIONS and the legacy variables *)

\* no environment under consideration
EnvNone == [set |-> FALSE, entries |-> <<>>, TOKEN_ADDRESS |-> "", TOKEN_NAME |-> ""]

\* one comma-separated entry of COLLECTIONS after split(":") : well-formed
\* entries without and with a prefix (one with its prefix in upper case and a
\* "*" maxId), an unprefixed entry that names its chain, and entries with too
\* few parts, without address, without name, or empty
ConfigEntries ==
    { <<"0xA", "A", "1", "2">>,
      <<"p", "0xB", "B", "1", "2">>,
      <<"P", "0xA", "C", "1", "*">>,
      <<"0xA", "D", "1", "2", "eth">>,
      <<"q", "0xB">>,
      <<"q", "", "B", "1", "2">>,
      <<"q", "0xB", "", "1", "2">>,
      <<"">> }

\* the environments the process may start in: COLLECTIONS unset or holding
\* one to MaxEntries entries, TOKEN_ADDRESS and TOKEN_NAME set or not
Environments ==
    { [set |-> s, entries |-> e, TOKEN_ADDRESS |-> a, TOKEN_NAME |-> n] :
        s \in {TRUE}, e \in SeqsUpTo(ConfigEntries, MaxEntries) \ {<<>>},
        a \in {"", "0xL"}, n \in {"", "Legacy"} }
    \cup
    { [set |-> FALSE, entries |-> <<>>, TOKEN_ADDRESS |-> a, TOKEN_NAME |-> n] :
        a \in {"", "0xL"}, n \in {"", "Legacy"} }

\* parts.at(k) ?? "" for a 1-based k
PartAt(parts, k) == IF k \in 1..Len(parts) THEN parts[k] ELSE ""

\* value.startsWith("0x")
isEthAddress(value) == value \in {"0xA", "0xB", "0xL"}

\* the value Number() makes of a part, as a field of the entry
FieldOf(part) ==
    CASE part = "*" -> StarField
      [] part = "" -> NumField(0)
      [] part = "1" -> NumField(1)
      [] part = "2" -> NumField(2)
      [] part = "0xA" -> NumField(10)
      [] part = "0xB" -> NumField(11)
      [] OTHER -> TextField

\* String.prototype.toLowerCase on a part
PartLower(part) == IF part = "P" THEN "p" ELSE part

\* parseCollectionEntry : the parsed configuration in a one-element array,
\* or the empty array for an entry that is skipped
parseCollectionEntry(parts, isFirst) ==
    LET firstHasPrefix == isFirst /\ ~isEthAddress(PartAt(parts, 1))
        hasPrefix == ~isFirst \/ firstHasPrefix
        minParts == IF hasPrefix THEN 5 ELSE 4
        offset == IF hasPrefix THEN 0 ELSE -1
        address == PartAt(parts, 2 + offset)
        name == PartAt(parts, 3 + offset)
    IN  IF Len(parts) < minParts THEN <<>>
        ELSE IF ~(address # "" /\ name # "") THEN <<>>
        ELSE << extractCollectionFields(
                    name,
                    IF hasPrefix THEN PartLower(PartAt(parts, 1)) ELSE "",
                    FieldOf(PartAt(parts, 4 + offset)),
                    FieldOf(PartAt(parts, 5 + offset))) >>

RECURSIVE ParseEntries(_, _)
ParseEntries(entries, index) ==
    IF index > Len(entries) THEN <<>>
    ELSE parseCollectionEntry(entries[index], index = 1)
         \o ParseEntries(entries, index + 1)

RECURSIVE ParseEntriesUntilInvalid(_, _)
ParseEntriesUntilInvalid(entries, index) ==
    IF index > Len(entries) THEN <<>>
    ELSE IF parseCollectionEntry(entries[index], index = 1) = <<>> THEN <<>>
    ELSE parseCollectionEntry(entries[index], index = 1)
         \o ParseEntriesUntilInvalid(entries, index + 1)

\* a parseCollections that gives up at the first invalid entry
parseCollectionsUntilInvalid(e) ==
    IF ~e.set \/ e.entries = << <<"">> >> THEN <<>>
    ELSE ParseEntriesUntilInvalid(e.entries, 1)

\* parseCollections : [] when COLLECTIONS is unset or empty, else the
\* configurations of the entries that parse, in order
parseCollections(e) ==
    IF ~e.set \/ e.entries = << <<"">> >> THEN <<>>
    ELSE ParseEntries(e.entries, 1)

\* parseLegacyCollection : a one-element array, or empty when TOKEN_ADDRESS
\* or TOKEN_NAME is missing; MIN_TOKEN_ID is "1" and MAX_TOKEN_ID unset
parseLegacyCollection(e) ==
    IF ~(e.TOKEN_ADDRESS # "" /\ e.TOKEN_NAME # "") THEN <<>>
    ELSE << Collection(e.TOKEN_NAME, "", NumberOr(FieldOf("1"), 0),
                       NumberOr(FieldOf(""), DefaultMaxTokenId), FALSE) >>

\* collectionMap.set(collection.prefix, collection) on the map in insertion
\* order: an existing key keeps its place and takes the new value
RegistrySet(reg, collection) ==
    IF \E i \in 1..Len(reg) : reg[i].prefix = collection.prefix
    THEN [i \in 1..Len(reg) |->
            IF reg[i].prefix = collection.prefix THEN collection ELSE reg[i]]
    ELSE Append(reg, collection)

RECURSIVE RegisterAll(_, _, _)
RegisterAll(reg, collections, i) ==
    IF i > Len(collections) THEN reg
    ELSE RegisterAll(RegistrySet(reg, collections[i]), collections, i + 1)

BootConfig == [pc |-> "config", i |-> 1]
BootNoCollections == [pc |-> "noCollections", i |-> 1]

\* initCollections : clears the map, registers the parsed collections or the
\* legacy one, throws when the map stays empty
InitCollections ==
    /\ boot = BootConfig
    /\ LET collections == parseCollections(env)
           result == IF Len(collections) > 0
                     THEN RegisterAll(<<>>, collections, 1)
                     ELSE RegisterAll(<<>>, parseLegacyCollection(env), 1)
       IN  /\ registry' = result
           /\ boot' = IF Len(result) = 0 THEN BootNoCollections ELSE BootStart
    /\ UNCHANGED <<dc, supply, pm, pt, env>>

(* OpenSea API: openseaGet and the fetch functions *)

\* Cache capacity for collection slugs
COLLECTION_SLUG_CACHE_CAPACITY == 10

\* cache keys `${chain}:${address}` : one address on two chains
SlugKeys == {"ethereum:0xA", "polygon:0xA"}
\* the slug the remote API has for a contract
Slugs == {"s1", "s2"}

ApiFns == {"fetchCollectionSlug", "fetchNFT", "fetchLastSale", "fetchBestOffer",
           "fetchBestListing", "fetchAccountAddress", "fetchAccountNFTs"}

\* what await fetch(url) and response.json() can do: reject, answer with a
\* non-2xx status, answer 2xx with a body that does not parse, with a body
\* that lacks the field asked for, or with the data
FetchOutcomes == {"reject", "status404", "status500", "okBadJson", "okEmpty", "okData"}

\* a 2xx body without the field the caller reads
EmptyBody == "{}"

FetchErrorLine == "Fetch Error"
FetchingLine == "Fetching"

NoError == [name |-> "none", collection |-> "", tokenId |-> 0]

\* new NFTNotFoundError(collection, tokenId)
NFTNotFoundError(collection, tokenId) ==
    [name |-> "NFTNotFoundError", collection |-> collection, tokenId |-> tokenId]

\* an openseaGet whose catch block throws the error again
openseaGetRethrow(outcome, expect404, data) ==
    CASE outcome = "reject" ->
            [value |-> ValUndefined, log |-> <<>>, threw |-> TRUE]
      [] outcome = "status404" /\ expect404 ->
            [value |-> ValUndefined, log |-> <<>>, threw |-> FALSE]
      [] outcome \in {"status404", "status500"} ->
            [value |-> ValUndefined, log |-> <<FetchErrorLine>>, threw |-> FALSE]
      [] outcome = "okBadJson" ->
            [value |-> ValUndefined, log |-> <<>>, threw |-> TRUE]
      [] outcome = "okEmpty" ->
            [value |-> EmptyBody, log |-> <<>>, threw |-> FALSE]
      [] OTHER ->
            [value |-> data, log |-> <<>>, threw |-> FALSE]

\* openseaGet : the value it resolves to, the lines it pushes to userLog,
\* and whether it throws
openseaGet(outcome, expect404, data) ==
    CASE outcome = "reject" ->
            [value |-> ValUndefined, log |-> <<FetchErrorLine>>, threw |-> FALSE]
      [] outcome = "status404" /\ expect404 ->
            [value |-> ValUndefined, log |-> <<>>, threw |-> FALSE]
      [] outcome \in {"status404", "status500"} ->
            [value |-> ValUndefined, log |-> <<FetchErrorLine>>, threw |-> FALSE]
      [] outcome = "okBadJson" ->
            [value |-> ValUndefined, log |-> <<FetchErrorLine>>, threw |-> FALSE]
      [] outcome = "okEmpty" ->
            [value |-> EmptyBody, log |-> <<>>, threw |-> FALSE]
      [] OTHER ->
            [value |-> data, log |-> <<>>, threw |-> FALSE]

\* result?.field : undefined unless the body holds the field
FieldOfBody(value) == IF value \in {ValUndefined, EmptyBody} THEN ValUndefined ELSE value

\* a fetchNFT that throws only when openseaGet resolved to undefined
NftMissingOnlyIfUndefined(value) == value = ValUndefined

\* fetchNFT : !result?.nft
NftMissing(value) == FieldOfBody(value) = ValUndefined

\* a cache test that never hits
SlugCachedNever(cached) == FALSE

\* if (cached) on the value a slug cache returned
SlugCached(cached) == cached # ValUndefined /\ cached # ""

\* fetchBestOffer and fetchBestListing pass expect404 = true
Expect404(fn) == fn \in {"fetchBestOffer", "fetchBestListing"}

RqIdle ==
    [fn |-> "none", pc |-> "idle", key |-> "", tokenId |-> 0, userLog |-> <<>>,
     outcome |-> "none", result |-> ValUndefined, raised |-> NoError,
     requests |-> 0, known |-> ValUndefined, cached |-> FALSE]

\* Cache capacity for usernames
USERNAME_CACHE_CAPACITY == 100

\* an address as shortAddress reads it: characters 0..6, 7..36 and 37..41;
\* two owners whose addresses differ in the middle only
Addresses == {<<"0x38a16", "a", "c7eb3">>, <<"0x38a16", "b", "c7eb3">>}

\* the username the account of every address has on OpenSea
RemoteUsername == "alice"

Lookups == 1..MaxLookups

\* shortAddress : `${addr.slice(0, 7)}...${addr.slice(37, 42)}`
shortAddress(addr) == <<addr[1], "...", addr[3]>>

\* username || shortAddress(address)
DisplayOf(username, address) ==
    IF username # "" THEN <<username>> ELSE shortAddress(address)

\* account?.username ?? "" on what fetchAccount resolved to
UsernameOf(value) == IF FieldOfBody(value) = ValUndefined THEN "" ELSE value

\* a getUsername that tests `if (cached)`
UsernameCachedTruthy(cached) == cached # ValUndefined /\ cached # ""

\* getUsername : cached !== undefined
UsernameCached(cached) == cached # ValUndefined

UnIdle ==
    [pc |-> "idle", address |-> <<>>, display |-> <<>>, raised |-> FALSE,
     requests |-> 0, outcome |-> "none", userLog |-> <<>>,
     entry |-> ValUndefined, known |-> ValUndefined]

\* getUsername(address) up to the request of fetchAccount: a cached entry
\* is answered at once
GetUsernameCall(l, address) ==
    /\ un[l].pc = "idle"
    /\ \A k \in 1..(l - 1) : un[k].pc # "idle"
    /\ LET cached == MapGet(usernameCache.cache, address)
           call == [UnIdle EXCEPT !.address = address, !.entry = cached,
                                  !.known = lastName[address]]
       IN  /\ usernameCache' = [usernameCache EXCEPT
                                  !.order = IF GetHits(usernameCache.cache, address)
                                            THEN UpdateOrder(usernameCache.order, address)
                                            ELSE usernameCache.order]
           /\ un' = [un EXCEPT ![l] =
                        IF UsernameCached(cached)
                        THEN [call EXCEPT !.pc = "done",
                                          !.display = DisplayOf(cached, address)]
                        ELSE [call EXCEPT !.pc = "fetching"]]
    /\ UNCHANGED lastName

\* fetchAccount settles and getUsername runs to its end: the username, or
\* "" when there is none, is put in the cache
GetUsernameSettle(l, outcome) ==
    /\ un[l].pc = "fetching"
    /\ LET r == openseaGet(outcome, FALSE, RemoteUsername)
           username == UsernameOf(r.value)
           address == un[l].address
           call == [un[l] EXCEPT !.outcome = outcome, !.requests = 1,
                                 !.userLog = r.log]
       IN  IF r.threw
           THEN /\ un' = [un EXCEPT ![l] = [call EXCEPT !.pc = "done", !.raised = TRUE]]
                /\ UNCHANGED <<usernameCache, lastName>>
           ELSE /\ usernameCache' =
                        [cache |-> PutCache(usernameCache.cache, usernameCache.order,
                                            USERNAME_CACHE_CAPACITY, address, username),
                         order |-> PutOrder(usernameCache.cache, usernameCache.order,
                                            USERNAME_CACHE_CAPACITY, address)]
                /\ lastName' = IF username # ""
                               THEN [lastName EXCEPT ![address] = username]
                               ELSE lastName
                /\ un' = [un EXCEPT ![l] =
                            [call EXCEPT !.pc = "done",
                                         !.display = DisplayOf(username, address)]]

EmptySlugCache == [cache |-> EmptyMap, order |-> <<>>]

ApiIdle ==
    /\ rq = RqIdle
    /\ slugCache = EmptySlugCache
    /\ slugMap = EmptyMap
    /\ remote = [k \in SlugKeys |-> "s1"]
    /\ lastSlug = [k \in SlugKeys |-> ValUndefined]
    /\ usernameCache = EmptySlugCache
    /\ un = [l \in Lookups |-> UnIdle]
    /\ lastName = [a \in Addresses |-> ValUndefined]

\* a call that returned or threw
RqDone(call, result, raised, log, requests) ==
    [call EXCEPT !.pc = "done", !.result = result, !.raised = raised,
                 !.userLog = call.userLog \o log, !.requests = requests]

\* the collection owner renames the collection on OpenSea
RemoteRename(key) ==
    /\ \E s \in Slugs \ {remote[key]} : remote' = [remote EXCEPT ![key] = s]
    /\ UNCHANGED <<rq, slugCache, slugMap, lastSlug>>

\* getSlugForCollection up to the remote request of fetchCollectionSlug:
\* slugMap, then slugCache (a hit there is stored in slugMap), else the
\* request is sent
GetSlugCall(key) ==
    /\ rq.pc \in {"idle", "done"}
    /\ LET call == [RqIdle EXCEPT !.fn = "fetchCollectionSlug", !.key = key,
                                  !.known = lastSlug[key],
                                  !.cached = MapHas(slugMap, key)
                                             \/ MapHas(slugCache.cache, key)]
           inMap == MapGet(slugMap, key)
           inCache == MapGet(slugCache.cache, key)
       IN  IF SlugCached(inMap)
           THEN /\ rq' = RqDone(call, inMap, NoError, <<>>, 0)
                /\ UNCHANGED <<slugCache, slugMap>>
           ELSE /\ slugCache' = [slugCache EXCEPT
                                   !.order = IF GetHits(slugCache.cache, key)
                                             THEN UpdateOrder(slugCache.order, key)
                                             ELSE slugCache.order]
                /\ IF SlugCached(inCache)
                   THEN /\ rq' = RqDone(call, inCache, NoError, <<>>, 0)
                        /\ slugMap' = MapSet(slugMap, key, inCache)
                   ELSE /\ rq' = [call EXCEPT !.pc = "fetching"]
                        /\ UNCHANGED slugMap
    /\ UNCHANGED <<remote, lastSlug>>

\* the other fetch functions up to their request; fetchNFT first pushes a
\* line to userLog
FetchCall(fn, key, tokenId) ==
    /\ rq.pc \in {"idle", "done"}
    /\ fn \in ApiFns \ {"fetchCollectionSlug"}
    /\ rq' = [RqIdle EXCEPT !.fn = fn, !.key = key, !.tokenId = tokenId,
                            !.pc = "fetching",
                            !.userLog = IF fn = "fetchNFT" THEN <<FetchingLine>> ELSE <<>>]
    /\ UNCHANGED <<slugCache, slugMap, remote, lastSlug>>

\* the request settles and the function in flight runs to its end
FetchSettle(outcome) ==
    /\ rq.pc = "fetching"
    /\ LET data == IF rq.fn = "fetchCollectionSlug" THEN remote[rq.key] ELSE "data"
           r == openseaGet(outcome, Expect404(rq.fn), data)
           call == [rq EXCEPT !.outcome = outcome]
           field == FieldOfBody(r.value)
       IN  IF r.threw
           THEN /\ rq' = RqDone(call, ValUndefined,
                                [name |-> "Error", collection |-> "", tokenId |-> 0],
                                r.log, 1)
                /\ UNCHANGED <<slugCache, slugMap, lastSlug>>
           ELSE CASE rq.fn = "fetchCollectionSlug" ->
                        IF field # ValUndefined
                        THEN /\ slugCache' =
                                    [cache |-> PutCache(slugCache.cache, slugCache.order,
                                                        COLLECTION_SLUG_CACHE_CAPACITY,
                                                        rq.key, field),
                                     order |-> PutOrder(slugCache.cache, slugCache.order,
                                                        COLLECTION_SLUG_CACHE_CAPACITY,
                                                        rq.key)]
                             /\ slugMap' = MapSet(slugMap, rq.key, field)
                             /\ lastSlug' = [lastSlug EXCEPT ![rq.key] = field]
                             /\ rq' = RqDone(call, field, NoError, r.log, 1)
                        ELSE /\ rq' = RqDone(call, ValUndefined, NoError, r.log, 1)
                             /\ UNCHANGED <<slugCache, slugMap, lastSlug>>
                  [] rq.fn = "fetchNFT" ->
                        /\ rq' = IF NftMissing(r.value)
                                 THEN RqDone(call, ValUndefined,
                                             NFTNotFoundError(rq.key, rq.tokenId), r.log, 1)
                                 ELSE RqDone(call, r.value, NoError, r.log, 1)
                        /\ UNCHANGED <<slugCache, slugMap, lastSlug>>
                  [] rq.fn \in {"fetchBestOffer", "fetchBestListing"} ->
                        /\ rq' = RqDone(call, r.value, NoError, r.log, 1)
                        /\ UNCHANGED <<slugCache, slugMap, lastSlug>>
                  [] rq.fn = "fetchAccountNFTs" ->
                        /\ rq' = RqDone(call, IF field = ValUndefined THEN "[]" ELSE field,
                                        NoError, r.log, 1)
                        /\ UNCHANGED <<slugCache, slugMap, lastSlug>>
                  [] OTHER ->
                        /\ rq' = RqDone(call, field, NoError, r.log, 1)
                        /\ UNCHANGED <<slugCache, slugMap, lastSlug>>
    /\ UNCHANGED remote

----------------------------------------------------------------------------
(* Specifications *)

LruIdle == LruConstructed /\ lruCapacity = 1

StateIdle ==
    /\ enablePersistence = FALSE
    /\ loaded = FALSE
    /\ dirty = FALSE
    /\ state = createDefaultState
    /\ file = NoFile
    /\ loadPc = "idle"
    /\ ld = LoadIdle
    /\ sv = [s \in Savers |-> SaverIdle("none")]
    /\ calls = 0

\* start-up is over, nobody asks about a dynamic id, no trigger handled yet
CollIdle ==
    /\ boot = BootReady
    /\ dc = [c \in Checkers |-> CheckIdle]
    /\ pm = PmNone
    /\ pt = PtNone
    /\ env = EnvNone

RandomIdle ==
    /\ registry = CHOOSE r \in Registries : r[2].dynamicSupply
    /\ rotationIndex = EmptyMap
    /\ fr = [f \in Firings |-> FiringIdle]

InitLRU == ApiIdle /\ LruConstructed /\ StateIdle /\ RandomIdle /\ MsgConstructed /\ CollIdle /\ supply = 0

NextLRU ==
    \/ \E k \in LruKeys : LruGet(k) /\ UNCHANGED <<apiVars, stateVars, randomVars, msgVars, collVars>>
    \/ \E k \in LruKeys : LruHas(k) /\ UNCHANGED <<apiVars, stateVars, randomVars, msgVars, collVars>>
    \/ \E k \in LruKeys, v \in LruValues : LruPut(k, v) /\ UNCHANGED <<apiVars, stateVars, randomVars, msgVars, collVars>>
    \/ \E k \in LruKeys : LruDelete(k) /\ UNCHANGED <<apiVars, stateVars, randomVars, msgVars, collVars>>
    \/ LruClear /\ UNCHANGED <<apiVars, stateVars, randomVars, msgVars, collVars>>

SpecLRU == InitLRU /\ [][NextLRU]_vars

InitState == ApiIdle /\ LruIdle /\ StateConstructed /\ RandomIdle /\ MsgConstructed /\ CollIdle /\ supply = 0

NextState ==
    \/ LoadCall /\ UNCHANGED <<apiVars, lruVars, randomVars, msgVars, collVars>>
    \/ LoadRead /\ UNCHANGED <<apiVars, lruVars, randomVars, msgVars, collVars>>
    \/ \E s \in ApiSavers : SaveCall(s) /\ UNCHANGED <<apiVars, lruVars, randomVars, msgVars, collVars>>
    \/ \E s \in ApiSavers : SaveMkdir(s) /\ UNCHANGED <<apiVars, lruVars, randomVars, msgVars, collVars>>
    \/ \E s \in ApiSavers : SaveWrite(s) /\ UNCHANGED <<apiVars, lruVars, randomVars, msgVars, collVars>>
    \/ \E c \in Channels, t \in TokenIds : AddRecentToken(c, t) /\ UNCHANGED <<apiVars, lruVars, randomVars, msgVars, collVars>>
    \/ \E c \in Channels : ClearRecentTokens(c) /\ UNCHANGED <<apiVars, lruVars, randomVars, msgVars, collVars>>

SpecState == InitState /\ [][NextState]_vars

\* the timers are set up after load() has completed, on the singleton state
\* manager, whose persistence is enabled outside tests
InitRandom ==
    /\ ApiIdle
    /\ LruIdle
    /\ MsgConstructed
    /\ RandomConstructed
    /\ enablePersistence = TRUE
    /\ loaded = TRUE
    /\ dirty = FALSE
    /\ \E start \in RandomStarts :
        /\ registry = start.registry
        /\ state = [createDefaultState EXCEPT !.recentTokens = start.recent]
    /\ file = NoFile
    /\ loadPc = "idle"
    /\ ld = LoadDone
    /\ sv = [s \in Savers |-> SaverIdle("none")]
    /\ calls = 0
    /\ CollIdle
    /\ supply = 0

NextRandom ==
    \/ \E f \in Firings : TimerFire(f) /\ UNCHANGED <<apiVars, lruVars, msgVars, collVars>>
    \/ \E f \in Firings : SelectAttempt(f) /\ UNCHANGED <<apiVars, lruVars, msgVars, collVars>>
    \/ \E f \in Firings : SelectFallback(f) /\ UNCHANGED <<apiVars, lruVars, msgVars, collVars>>
    \/ \E f \in Firings : TimerBuild(f) /\ UNCHANGED <<apiVars, lruVars, msgVars, collVars>>
    \/ \E f \in Firings : TimerSlug(f) /\ UNCHANGED <<apiVars, lruVars, msgVars, collVars>>
    \/ \E f \in Firings : TimerFetchNFT(f) /\ UNCHANGED <<apiVars, lruVars, msgVars, collVars>>
    \/ \E f \in Firings : TimerMetadata(f) /\ UNCHANGED <<apiVars, lruVars, msgVars, collVars>>
    \/ \E f \in Firings : TimerOwner(f) /\ UNCHANGED <<apiVars, lruVars, msgVars, collVars>>
    \/ \E f \in Firings : TimerSaveMkdir(f) /\ UNCHANGED <<apiVars, lruVars, msgVars, collVars>>
    \/ \E f \in Firings : TimerSaveWrite(f) /\ UNCHANGED <<apiVars, lruVars, msgVars, collVars>>
    \/ \E f \in Firings : TimerSend(f) /\ UNCHANGED <<apiVars, lruVars, msgVars, collVars>>

SpecRandom == InitRandom /\ [][NextRandom]_vars

\* the timers of entries that share a channel, with the observations made
NextTimers ==
    \/ \E f \in Firings : TimerFireObserved(f) /\ UNCHANGED <<apiVars, lruVars, msgVars, collVars>>
    \/ \E f \in Firings : SelectAttempt(f) /\ UNCHANGED <<apiVars, lruVars, msgVars, collVars>>
    \/ \E f \in Firings : SelectFallback(f) /\ UNCHANGED <<apiVars, lruVars, msgVars, collVars>>
    \/ \E f \in Firings : TimerBuild(f) /\ UNCHANGED <<apiVars, lruVars, msgVars, collVars>>
    \/ \E f \in Firings : TimerSlug(f) /\ UNCHANGED <<apiVars, lruVars, msgVars, collVars>>
    \/ \E f \in Firings : TimerFetchNFT(f) /\ UNCHANGED <<apiVars, lruVars, msgVars, collVars>>
    \/ \E f \in Firings : TimerMetadata(f) /\ UNCHANGED <<apiVars, lruVars, msgVars, collVars>>
    \/ \E f \in Firings : TimerOwner(f) /\ UNCHANGED <<apiVars, lruVars, msgVars, collVars>>
    \/ \E f \in Firings : TimerSaveMkdir(f) /\ UNCHANGED <<apiVars, lruVars, msgVars, collVars>>
    \/ \E f \in Firings : TimerSaveWrite(f) /\ UNCHANGED <<apiVars, lruVars, msgVars, collVars>>
    \/ \E f \in Firings : TimerSend(f) /\ UNCHANGED <<apiVars, lruVars, msgVars, collVars>>

SpecTimers == InitRandom /\ [][NextTimers]_vars

InitMsg ==
    /\ ApiIdle
    /\ LruIdle
    /\ StateIdle
    /\ registry \in Registries
    /\ rotationIndex = EmptyMap
    /\ fr = [f \in Firings |-> FiringIdle]
    /\ MsgConstructed
    /\ CollIdle
    /\ supply \in 0..MaxSupply

NextMsg ==
    \/ \E bot \in BOOLEAN, matches \in MatchLists :
            MessageCreate(bot, matches) /\ UNCHANGED <<apiVars, lruVars, stateVars, randomVars, collVars>>
    \/ MsgSlug /\ UNCHANGED <<apiVars, lruVars, stateVars, randomVars, collVars>>
    \/ MsgFetchNFT /\ UNCHANGED <<apiVars, lruVars, stateVars, randomVars, collVars>>
    \/ MsgMetadata /\ UNCHANGED <<apiVars, lruVars, stateVars, randomVars, collVars>>
    \/ MsgOwner /\ UNCHANGED <<apiVars, lruVars, stateVars, randomVars, collVars>>
    \/ MsgReply /\ UNCHANGED <<apiVars, lruVars, stateVars, randomVars, collVars>>

SpecMsg == InitMsg /\ [][NextMsg]_vars

\* the process starts: initCollections has parsed the configuration and
\* initCollectionSlugs begins
CollParsed ==
    /\ ApiIdle
    /\ LruIdle
    /\ StateIdle
    /\ MsgConstructed
    /\ registry \in ParsedRegistries
    /\ rotationIndex = EmptyMap
    /\ fr = [f \in Firings |-> FiringIdle]
    /\ boot = BootStart
    /\ dc = [c \in Checkers |-> CheckIdle]
    /\ supply \in 0..MaxSupply
    /\ pm = PmNone
    /\ pt = PtNone
    /\ env = EnvNone

InitColl == CollParsed

NextColl ==
    \/ SupplyChange /\ UNCHANGED <<apiVars, lruVars, stateVars, msgVars, rotationIndex, fr>>
    \/ BootSlug /\ UNCHANGED <<apiVars, lruVars, stateVars, msgVars, rotationIndex, fr>>
    \/ BootSupply /\ UNCHANGED <<apiVars, lruVars, stateVars, msgVars, rotationIndex, fr>>
    \/ \E c \in Checkers, col \in {1, 2}, tokenId \in CheckTokenIds :
            CheckCall(c, col, tokenId) /\ UNCHANGED <<apiVars, lruVars, stateVars, msgVars, rotationIndex, fr>>
    \/ \E c \in Checkers : CheckSlug(c) /\ UNCHANGED <<apiVars, lruVars, stateVars, msgVars, rotationIndex, fr>>
    \/ \E c \in Checkers : CheckSupply(c) /\ UNCHANGED <<apiVars, lruVars, stateVars, msgVars, rotationIndex, fr>>

SpecColl == InitColl /\ [][NextColl]_vars

\* the process starts with the configuration parsed, a supply on the remote
\* side, and nothing persisted
InitMain ==
    /\ ApiIdle
    /\ LruIdle
    /\ MsgConstructed
    /\ RandomConstructed
    /\ enablePersistence = TRUE
    /\ loaded = TRUE
    /\ dirty = FALSE
    /\ registry \in Registries
    /\ state = createDefaultState
    /\ file = NoFile
    /\ loadPc = "idle"
    /\ ld = LoadDone
    /\ sv = [s \in Savers |-> SaverIdle("none")]
    /\ calls = 0
    /\ boot = BootStart
    /\ dc = [c \in Checkers |-> CheckIdle]
    /\ supply \in 0..MaxSupply
    /\ pm = PmNone
    /\ pt = PtNone
    /\ env = EnvNone

\* positions of a firing that is not in flight
FiringEnds == {"idle", "done", "rejected"}

\* one kind of event is followed after startup, a message or timer firings,
\* and the firings do not overlap
NextMain ==
    \/ BootSlug /\ UNCHANGED <<apiVars, lruVars, stateVars, msgVars, rotationIndex, fr>>
    \/ BootSupply /\ UNCHANGED <<apiVars, lruVars, stateVars, msgVars, rotationIndex, fr>>
    \/ /\ RandomConstructed
       /\ \E col \in {1, 2}, isRandom \in BOOLEAN, explicit \in TriggerIds :
            ProcessMatch(col, isRandom, explicit)
            /\ UNCHANGED <<apiVars, lruVars, stateVars, msgVars, rotationIndex, fr>>
    \/ /\ pm = PmNone
       /\ \A g \in Firings : fr[g].pc \in FiringEnds
       /\ \E f \in Firings : TimerFireStarted(f) /\ UNCHANGED <<apiVars, lruVars, msgVars, collVars>>
    \/ \E f \in Firings : SelectAttempt(f) /\ UNCHANGED <<apiVars, lruVars, msgVars, collVars>>
    \/ \E f \in Firings : SelectFallback(f) /\ UNCHANGED <<apiVars, lruVars, msgVars, collVars>>
    \/ \E f \in Firings : TimerBuild(f) /\ UNCHANGED <<apiVars, lruVars, msgVars, collVars>>
    \/ \E f \in Firings : TimerSlug(f) /\ UNCHANGED <<apiVars, lruVars, msgVars, collVars>>
    \/ \E f \in Firings : TimerFetchNFT(f) /\ UNCHANGED <<apiVars, lruVars, msgVars, collVars>>
    \/ \E f \in Firings : TimerMetadata(f) /\ UNCHANGED <<apiVars, lruVars, msgVars, collVars>>
    \/ \E f \in Firings : TimerOwner(f) /\ UNCHANGED <<apiVars, lruVars, msgVars, collVars>>
    \/ \E f \in Firings : TimerSaveMkdir(f) /\ UNCHANGED <<apiVars, lruVars, msgVars, collVars>>
    \/ \E f \in Firings : TimerSaveWrite(f) /\ UNCHANGED <<apiVars, lruVars, msgVars, collVars>>
    \/ \E f \in Firings : TimerSend(f) /\ UNCHANGED <<apiVars, lruVars, msgVars, collVars>>

SpecMain == InitMain /\ [][NextMain]_vars

InitParse == CollParsed

NextParse ==
    \/ SupplyChange /\ UNCHANGED <<apiVars, lruVars, stateVars, msgVars, rotationIndex, fr>>
    \/ BootSlug /\ UNCHANGED <<apiVars, lruVars, stateVars, msgVars, rotationIndex, fr>>
    \/ BootSupply /\ UNCHANGED <<apiVars, lruVars, stateVars, msgVars, rotationIndex, fr>>
    \/ \E col \in {1, 2}, isRandom \in BOOLEAN, explicit \in TriggerIds :
            ProcessMatch(col, isRandom, explicit)
            /\ UNCHANGED <<apiVars, lruVars, stateVars, msgVars, rotationIndex, fr>>

SpecParse == InitParse /\ [][NextParse]_vars

InitText ==
    /\ ApiIdle
    /\ LruIdle
    /\ StateIdle
    /\ MsgConstructed
    /\ CollIdle
    /\ supply = 0
    /\ registry \in TextRegistries
    /\ rotationIndex = EmptyMap
    /\ fr = [f \in Firings |-> FiringIdle]

\* one message is parsed in a run
NextText ==
    /\ pt = PtNone
    /\ \E content \in Texts :
        ParseMessageMatches(content)
        /\ UNCHANGED <<apiVars, lruVars, stateVars, msgVars, rotationIndex, fr>>

SpecText == InitText /\ [][NextText]_vars

InitConfig ==
    /\ ApiIdle
    /\ LruIdle
    /\ StateIdle
    /\ MsgConstructed
    /\ registry = <<>>
    /\ rotationIndex = EmptyMap
    /\ fr = [f \in Firings |-> FiringIdle]
    /\ boot = BootConfig
    /\ dc = [c \in Checkers |-> CheckIdle]
    /\ supply = 0
    /\ pm = PmNone
    /\ pt = PtNone
    /\ env \in Environments

NextConfig ==
    InitCollections /\ UNCHANGED <<apiVars, lruVars, stateVars, msgVars, rotationIndex, fr>>

SpecConfig == InitConfig /\ [][NextConfig]_vars

InitApi ==
    /\ LruIdle
    /\ StateIdle
    /\ MsgConstructed
    /\ RandomIdle
    /\ CollIdle
    /\ supply = 0
    /\ ApiIdle

NextApi ==
    \/ \E key \in SlugKeys : RemoteRename(key) /\ UNCHANGED <<userVars, lruVars, stateVars, randomVars, msgVars, collVars>>
    \/ \E key \in SlugKeys : GetSlugCall(key) /\ UNCHANGED <<userVars, lruVars, stateVars, randomVars, msgVars, collVars>>
    \/ \E fn \in ApiFns, key \in SlugKeys, tokenId \in TokenIds :
            FetchCall(fn, key, tokenId) /\ UNCHANGED <<userVars, lruVars, stateVars, randomVars, msgVars, collVars>>
    \/ \E outcome \in FetchOutcomes :
            FetchSettle(outcome) /\ UNCHANGED <<userVars, lruVars, stateVars, randomVars, msgVars, collVars>>

SpecApi == InitApi /\ [][NextApi]_vars

InitUser == InitApi

NextUser ==
    \/ \E l \in Lookups, address \in Addresses :
            GetUsernameCall(l, address)
            /\ UNCHANGED <<slugVars, lruVars, stateVars, randomVars, msgVars, collVars>>
    \/ \E l \in Lookups, outcome \in FetchOutcomes :
            GetUsernameSettle(l, outcome)
            /\ UNCHANGED <<slugVars, lruVars, stateVars, randomVars, msgVars, collVars>>

SpecUser == InitUser /\ [][NextUser]_vars

----------------------------------------------------------------------------
(* Claims *)

(* C1: for any capacity > 0 and any sequence of get/put/delete/clear calls  *)
(* the cache never holds more than capacity entries.                       *)
C1_NeverOverCapacity == LruSize <= lruCapacity

\* what does hold: the keys other than undefined never exceed the capacity
C1_DefinedKeysWithinCapacity ==
    Cardinality((DOMAIN lruCache) \ {undefined}) <= lruCapacity

(* C2: a put of a new key into a full cache removes exactly one entry, the *)
(* least-recently-used one at that moment, and every other entry is kept   *)
(* with its value, also when the capacity is 1.                            *)
C2_EvictsExactlyLru ==
    (/\ lruLast.op = "put"
     /\ ~MapHas(lruLast.preCache, lruLast.key)
     /\ MapSize(lruLast.preCache) >= lruCapacity)
    => /\ Len(lruLast.preOrder) > 0
       /\ DOMAIN lruCache =
            ((DOMAIN lruLast.preCache) \ {Head(lruLast.preOrder)}) \cup {lruLast.key}
       /\ Cardinality((DOMAIN lruLast.preCache) \ (DOMAIN lruCache)) = 1
       /\ \A k \in (DOMAIN lruCache) \ {lruLast.key} : lruCache[k] = lruLast.preCache[k]

\* what does hold: the same, while undefined has never been used as a key
C2_EvictsExactlyLruDefinedKeys ==
    (undefined \notin (DOMAIN lruLast.preCache) \cup {lruLast.key}) => C2_EvictsExactlyLru

(* C3: in every reachable state, also right after a state file was loaded  *)
(* and after any addRecentToken and clearRecentTokens calls, each          *)
(* channel's recency list holds at most 50 ids and no id twice.            *)
C3_RecencyBoundedNoDup ==
    \A c \in DOMAIN state.recentTokens :
        /\ Len(state.recentTokens[c]) <= RECENT_TOKENS_LIMIT
        /\ NoDup(state.recentTokens[c])

(* C4: getUniqueRandomToken returns the first id it drew that is not in    *)
(* the channel's recency list: whenever one of its bounded attempts drew   *)
(* an id that is not recent, the id returned is that draw, it is not in    *)
(* the recency list, and every draw before it was in it; only when no      *)
(* attempt drew such an id does the call fall back.                        *)
C4_ReturnsFirstFreshDraw ==
    \A f \in Firings :
        LET attempts == fr[f].draws - (IF fr[f].fellBack THEN 1 ELSE 0)
        IN  (fr[f].pc = "selected")
            => IF attempts > fr[f].stale
               THEN /\ ~InRecency(fr[f].channelId, fr[f].tokenId)
                    /\ fr[f].tokenId = fr[f].lastAttempt
                    /\ fr[f].stale = attempts - 1
                    /\ ~fr[f].fellBack
               ELSE fr[f].fellBack

C4_Witness ==
    \E f \in Firings :
        /\ fr[f].pc = "selected"
        /\ ~fr[f].fellBack
        /\ fr[f].stale >= 2
        /\ ~InRecency(fr[f].channelId, fr[f].tokenId)

(* C5 as stated: when every one of the 10 attempts draws an id that is in  *)
(* the recency list, the id returned is the last of those attempted draws. *)
C5_ReturnsLastAttempt ==
    \A f \in Firings :
        (fr[f].pc = "selected" /\ fr[f].stale >= MAX_RANDOM_ATTEMPTS)
        => fr[f].tokenId = fr[f].lastAttempt

(* C5 amended: when every one of the 10 attempts draws an id that is in    *)
(* the recency list, getUniqueRandomToken draws once more and returns that *)
(* eleventh draw unchecked, an id of the collection's range.               *)
C5_ReturnsExtraDraw ==
    \A f \in Firings :
        (fr[f].pc = "selected" /\ fr[f].stale >= MAX_RANDOM_ATTEMPTS)
        => /\ fr[f].fellBack
           /\ fr[f].draws = MAX_RANDOM_ATTEMPTS + 1
           /\ fr[f].tokenId = fr[f].lastDraw
           /\ fr[f].tokenId \in RandomTokenIds(registry[fr[f].collection])

C5_Witness ==
    \E f \in Firings :
        /\ fr[f].pc = "selected"
        /\ fr[f].stale >= MAX_RANDOM_ATTEMPTS
        /\ fr[f].fellBack
        /\ fr[f].tokenId # fr[f].lastAttempt
        /\ InRecency(fr[f].channelId, fr[f].lastAttempt)

(* C6: every call of getUniqueRandomToken ends after at most a fixed       *)
(* number of random draws (11), whatever the recency list and the id       *)
(* range: every step of the call is one draw, a draw is always possible,   *)
(* no call makes more than MAX_RANDOM_ATTEMPTS + 1 of them, and the call   *)
(* returns an id the collection can draw.                                  *)
C6_BoundedDraws ==
    [][\A f \in Firings :
        (fr[f].pc = "select")
        => /\ RandomTokenIds(registry[fr[f].collection]) # {}
           /\ (fr'[f] # fr[f])
              => /\ fr'[f].draws = fr[f].draws + 1
                 /\ fr'[f].draws <= MAX_RANDOM_ATTEMPTS + 1
                 /\ fr'[f].pc \in {"select", "selected"}
                 /\ (fr'[f].pc = "select") => fr'[f].draws < MAX_RANDOM_ATTEMPTS + 1
                 /\ (fr'[f].pc = "selected")
                    => fr'[f].tokenId \in RandomTokenIds(registry[fr[f].collection])]_vars

C6_Witness ==
    \E f \in Firings :
        /\ fr[f].pc = "selected"
        /\ fr[f].draws = MAX_RANDOM_ATTEMPTS + 1

(* C7: in a periodic random post the token id is added to the channel's    *)
(* recency list only after the post was sent; a firing whose send fails or *)
(* is never attempted adds nothing to the recency list.                    *)
C7_RecordedOnlyAfterSend ==
    \A f \in Firings : fr[f].added => fr[f].sent

(* C8: if the item fetch for one requested id of a message fails, no card  *)
(* is produced for that id, but the remaining ids are still processed and  *)
(* a reply is sent with exactly the cards that resolved.                   *)
C8_PartialSuccessReplies ==
    (msg.pc = "done" /\ msg.nftFailed)
    => /\ msg.i > Len(SliceTo(msg.matches, MAX_EMBEDS_PER_MESSAGE))
       /\ (Len(msg.embeds) > 0) => msg.replyTried

(* C9: if no requested id of a message resolves to a card, nothing is sent *)
(* for that message: a reply is attempted only with at least one card.     *)
C9_NoCardNoReply ==
    /\ msg.replyTried => Len(msg.embeds) > 0
    /\ Len(msg.reply) > 0 => msg.reply = msg.embeds
    /\ (msg.pc = "reply") => Len(msg.embeds) > 0

C9_Witness ==
    /\ msg.pc = "done"
    /\ Len(msg.matches) > 1
    /\ Len(msg.embeds) = 0
    /\ ~msg.replyTried
    /\ ~msg.caught

(* C10: save() writes the file only when persistence is enabled and the    *)
(* state is dirty: a call enters its write path only then, the file        *)
(* changes only when a write path completes, a call on a clean state ends  *)
(* at once leaving the file alone, and when a write succeeds dirty is      *)
(* false.                                                                  *)
C10_SaveOnlyWhenDirty ==
    [][/\ \A s \in Savers :
            /\ (sv[s].pc = "idle" /\ sv'[s].pc # "idle") => (enablePersistence /\ dirty)
            /\ (sv'[s] # sv[s] /\ sv'[s].out \in {"clean", "disabled"}) => file' = file
            /\ (sv[s].pc # "idle" /\ sv'[s].out = "written")
               => (~dirty' /\ file' = JsonFile(sv[s].json))
       /\ (file' # file)
          => \E s \in Savers : sv[s].pc = "write" /\ sv'[s].out = "written"]_vars

C10_Witness ==
    \E s \in Savers :
        /\ sv[s].out = "written"
        /\ ~dirty
        /\ file.kind = "json"
        /\ file.data.recentTokens # EmptyMap

C13_MaxNeverDecreases ==
    [][(dc' # dc)
       => \A i \in 1..Len(registry) :
            registry'[i].maxTokenId >= registry[i].maxTokenId]_vars

C13_Witness ==
    \E c \in Checkers :
        /\ dc[c].pc = "done"
        /\ dc[c].got # -1
        /\ dc[c].got < dc[c].maxAtCall
        /\ registry[dc[c].collection].maxTokenId >= dc[c].maxAtCall

\* a finished call answered at once, without a remote request, when the id
\* was below minTokenId, within bounds, or beyond them for a collection
\* that is not dynamic
C14_ImmediateAnswers ==
    \A c \in Checkers :
        dc[c].pc = "done"
        => LET col == registry[dc[c].collection]
               id == dc[c].tokenId
           IN  /\ (id >= col.minTokenId /\ id <= dc[c].maxAtCall)
                  => (dc[c].result = "true" /\ dc[c].requests = 0)
               /\ (id > dc[c].maxAtCall /\ ~col.dynamicSupply)
                  => (dc[c].result = "false" /\ dc[c].requests = 0)

(* C14: checkDynamicTokenId returns true without a remote request when the *)
(* id is within current bounds, false without one when the id exceeds      *)
(* maxTokenId and the collection is not dynamic, and for a dynamic         *)
(* collection refreshes the supply and returns true exactly when the       *)
(* refreshed supply covers the id, maxTokenId then being at least that     *)
(* supply, false otherwise.                                                *)
C14_TrueIffRefreshCovers ==
    /\ C14_ImmediateAnswers
    /\ \A c \in Checkers :
        LET col == registry[dc[c].collection]
            id == dc[c].tokenId
        IN  (dc[c].pc = "done" /\ col.dynamicSupply
             /\ id >= col.minTokenId /\ id > dc[c].maxAtCall)
            => /\ dc[c].result = "true" <=> (dc[c].got # -1 /\ id <= dc[c].got)
               /\ dc[c].result = "true" => col.maxTokenId >= dc[c].got

(* C14 as the code has it: the immediate answers as above, false at once   *)
(* for an id below minTokenId; the refresh sets maxTokenId to the larger   *)
(* of its value at that moment and the fetched supply and the call returns *)
(* true exactly when the id is at most that maxTokenId; a refresh that     *)
(* fails returns false and changes nothing.                                *)
C14_TrueIffUpdatedMaxCovers ==
    /\ [](/\ C14_ImmediateAnswers
          /\ \A c \in Checkers :
                (dc[c].pc = "done" /\ dc[c].tokenId < registry[dc[c].collection].minTokenId)
                => (dc[c].result = "false" /\ dc[c].requests = 0))
    /\ [][\A c \in Checkers :
            (dc[c].pc \in {"slug", "supply"} /\ dc'[c].pc = "done")
            => LET i == dc[c].collection
                   got == dc'[c].got
               IN  IF got = -1
                   THEN dc'[c].result = "false" /\ registry' = registry
                   ELSE /\ registry'[i].maxTokenId =
                             (IF got > registry[i].maxTokenId THEN got
                              ELSE registry[i].maxTokenId)
                        /\ dc'[c].result = "true" <=> dc[c].tokenId <= registry'[i].maxTokenId]_vars

C14_Witness ==
    \E c \in Checkers :
        /\ dc[c].pc = "done"
        /\ dc[c].result = "true"
        /\ dc[c].got # -1
        /\ dc[c].got < dc[c].tokenId

\* the matches buildEmbedsForMatches has passed to buildEmbed so far
Handled == {i \in 1..Len(SliceTo(msg.matches, MAX_EMBEDS_PER_MESSAGE)) : i < msg.i}

(* C15: an explicit id beyond the cached maxTokenId of a dynamic            *)
(* collection makes the message path refresh the supply: once the message  *)
(* is handled, no such id that the remote supply covers is still beyond    *)
(* maxTokenId.                                                             *)
C15_MessagePathRefreshes ==
    msg.pc = "done"
    => \A i \in Handled :
        LET col == registry[msg.matches[i].collection]
            id == msg.matches[i].tokenId
        IN  (col.dynamicSupply /\ id >= col.minTokenId /\ id <= supply)
            => id <= col.maxTokenId

C17_StaticBoundsImmutable ==
    [][\A i \in 1..Len(registry) :
        ~registry[i].dynamicSupply
        => /\ registry'[i].minTokenId = registry[i].minTokenId
           /\ registry'[i].maxTokenId = registry[i].maxTokenId
           /\ ~registry'[i].dynamicSupply]_vars

C17_Witness ==
    \E c \in Checkers :
        /\ dc[c].pc = "done"
        /\ ~registry[dc[c].collection].dynamicSupply
        /\ dc[c].tokenId > registry[dc[c].collection].maxTokenId
        /\ dc[c].tokenId <= supply
        /\ dc[c].result = "false"

(* C18: once start-up is over every collection of the registry has         *)
(* minTokenId <= maxTokenId.                                               *)
C18_BoundsOrdered ==
    boot.pc = "ready"
    => \A i \in 1..Len(registry) : registry[i].minTokenId <= registry[i].maxTokenId

(* C19: keys() returns exactly the keys in the cache, each once, from       *)
(* least to most recently touched: a put and a get that hits move the key  *)
(* to the most-recent end and keep the others in order, a get that misses  *)
(* and a has() leave the order alone.                                      *)
C19_KeysExactAndOrdered ==
    /\ [](Elems(LruKeysList) = DOMAIN lruCache /\ NoDup(LruKeysList))
    /\ [][LET o == lruLast'
              hit == MapHas(lruCache, o.key)
          IN  /\ (o.op = "has" \/ (o.op = "get" /\ ~hit)) => lruOrder' = lruOrder
              /\ (o.op = "get" /\ hit)
                 => lruOrder' = Append(FilterOut(lruOrder, o.key), o.key)
              /\ (o.op = "put" /\ hit)
                 => lruOrder' = Append(FilterOut(lruOrder, o.key), o.key)
              /\ (o.op = "put" /\ ~hit)
                 => \/ lruOrder' = Append(lruOrder, o.key)
                    \/ Len(lruOrder) > 0 /\ lruOrder' = Append(Tail(lruOrder), o.key)]_vars

(* C20: a put on a key already present replaces its value and makes it     *)
(* most-recently-used, evicts nothing and leaves the size as it was, also  *)
(* when the cache is at capacity.                                          *)
C20_PutExistingRefreshes ==
    (lruLast.op = "put" /\ MapHas(lruLast.preCache, lruLast.key))
    => /\ lruCache = MapSet(lruLast.preCache, lruLast.key, lruLast.value)
       /\ MapSize(lruCache) = MapSize(lruLast.preCache)
       /\ lruOrder = Append(FilterOut(lruLast.preOrder, lruLast.key), lruLast.key)

\* what does hold: a put on a present key other than undefined does all that
C20_PutExistingRefreshesDefinedKeys ==
    (lruLast.op = "put" /\ MapHas(lruLast.preCache, lruLast.key)
     /\ lruLast.key # undefined)
    => /\ lruCache = MapSet(lruLast.preCache, lruLast.key, lruLast.value)
       /\ MapSize(lruCache) = MapSize(lruLast.preCache)
       /\ lruOrder = Append(FilterOut(lruLast.preOrder, lruLast.key), lruLast.key)

(* C21: a key stored with an undefined, null or empty value is present:    *)
(* after the put has(key) is true and the key is in the map whatever the   *)
(* value, a get of it counts as a hit and moves it to the most-recent end, *)
(* and when it is the least-recently-used entry a put of a new key into    *)
(* the full cache evicts it.                                               *)
C21_EmptyValuesArePresent ==
    /\ lruLast.op = "put"
       => (MapHas(lruCache, lruLast.key) /\ lruCache[lruLast.key] = lruLast.value)
    /\ lruLast.op = "has" => lruLast.ret = MapHas(lruLast.preCache, lruLast.key)
    /\ (lruLast.op = "get" /\ MapHas(lruLast.preCache, lruLast.key)
        /\ Includes(lruLast.preOrder, lruLast.key))
       => /\ lruOrder = Append(FilterOut(lruLast.preOrder, lruLast.key), lruLast.key)
          /\ lruLast.ret = lruLast.preCache[lruLast.key]
    /\ (/\ lruLast.op = "put"
        /\ ~MapHas(lruLast.preCache, lruLast.key)
        /\ MapSize(lruLast.preCache) >= lruCapacity
        /\ Len(lruLast.preOrder) > 0
        /\ Head(lruLast.preOrder) # undefined)
       => ~MapHas(lruCache, Head(lruLast.preOrder))

C21_Witness ==
    /\ lruLast.op = "get"
    /\ lruLast.key # undefined
    /\ MapHas(lruLast.preCache, lruLast.key)
    /\ lruLast.preCache[lruLast.key] = ValUndefined
    /\ lruLast.ret = ValUndefined
    /\ Len(lruLast.preOrder) = 2
    /\ Head(lruLast.preOrder) = lruLast.key
    /\ lruOrder = <<lruLast.preOrder[2], lruLast.key>>
    /\ MapSize(lruCache) = 2

(* C22: addRecentToken(channelId, id) leaves id at the front of that        *)
(* channel's list and nowhere else in it, keeps the other ids in their     *)
(* order, truncates the list to 50 and leaves every other channel's list   *)
(* as it was.                                                              *)
C22_AddRecentMovesToFront ==
    [][\A channelId \in Channels, tokenId \in TokenIds :
        AddRecentToken(channelId, tokenId)
        => LET old == getRecentTokens(state, channelId)
               new == getRecentTokens(state', channelId)
               rest == FilterOut(old, tokenId)
           IN  /\ Len(new) > 0 /\ Head(new) = tokenId
               /\ ~Includes(Tail(new), tokenId)
               /\ Len(new) = (IF Len(rest) + 1 > RECENT_TOKENS_LIMIT
                              THEN RECENT_TOKENS_LIMIT ELSE Len(rest) + 1)
               /\ Tail(new) = SubSeq(rest, 1, Len(new) - 1)
               /\ \A other \in Channels \ {channelId} :
                    getRecentTokens(state', other) = getRecentTokens(state, other)]_vars

C22_Witness ==
    /\ dirty
    /\ Len(getRecentTokens(state, "c2")) = RECENT_TOKENS_LIMIT
    /\ getRecentTokens(state, "c2")[1] = 2
    /\ getRecentTokens(state, "c2")[2] = 1
    /\ getRecentTokens(state, "c2")[RECENT_TOKENS_LIMIT] = MaxTokenId + RECENT_TOKENS_LIMIT - 2

(* C23: every id drawn for a random keyword, that is every id randomTokenId *)
(* returns, lies in [minTokenId, maxTokenId], and is that value when the    *)
(* two bounds are equal.                                                   *)
C23_RandomInBounds ==
    (pm # PmNone /\ pm.isRandom)
    => LET col == registry[pm.collection]
       IN  /\ pm.tokenId >= col.minTokenId
           /\ pm.tokenId <= col.maxTokenId
           /\ col.minTokenId = col.maxTokenId => pm.tokenId = col.minTokenId

\* what does hold: the draw is within the bounds when they are in order
C23_RandomInBoundsWhenOrdered ==
    (pm # PmNone /\ registry[pm.collection].minTokenId <= registry[pm.collection].maxTokenId)
    => C23_RandomInBounds

(* C24 as stated: parseMessageMatches returns one match for every trigger   *)
(* occurrence with an explicit id in range, whatever separates consecutive  *)
(* triggers, and the matches are in the order the triggers appear.         *)
C24_PrefixOf(h) ==
    IF h > 1 /\ PrefixAt(registry, pt.content, h - 1) THEN pt.content[h - 1] ELSE ""

C24_ExplicitInRangeAt(h) ==
    /\ pt.content[h] = "#"
    /\ IdPartEnd(pt.content, h) # 0
    /\ pt.content[h + 1] # "?"
    /\ isValidTokenId(registry[ResolveCollection(registry, C24_PrefixOf(h))],
                      NumberOfDigits(pt.content, h + 1, IdPartEnd(pt.content, h) - 1))

C24_InOrder ==
    \A i, j \in 1..Len(pt.matches) : i < j => pt.matches[i].at < pt.matches[j].at

C24_EveryTriggerMatched ==
    pt # PtNone =>
        /\ \A h \in 1..Len(pt.content) :
              C24_ExplicitInRangeAt(h) => \E i \in 1..Len(pt.matches) : pt.matches[i].at = h
        /\ C24_InOrder

\* what the code does: the triggers are returned in order, and only a
\* trigger whose hash directly follows the id of the trigger before it can
\* be missing
C24_EveryTriggerMatchedUnlessAdjacent ==
    pt # PtNone =>
        /\ \A h \in 1..Len(pt.content) :
              /\ C24_ExplicitInRangeAt(h)
              /\ (h = 1 \/ pt.content[h - 1] \notin {"1", "?"})
              => \E i \in 1..Len(pt.matches) : pt.matches[i].at = h
        /\ C24_InOrder

(* C25: every returned match belongs to the collection registered under    *)
(* the prefix written before its hash, compared without regard to case; a  *)
(* trigger without a registered prefix before it belongs to the collection  *)
(* under the empty prefix if there is one, else to the first collection.    *)
C25_Expected(h) ==
    IF h > 1 /\ \E k \in 1..Len(registry) :
                    registry[k].prefix # "" /\ registry[k].prefix = toLowerCase(pt.content[h - 1])
    THEN {k \in 1..Len(registry) : registry[k].prefix = toLowerCase(pt.content[h - 1])}
    ELSE IF \E k \in 1..Len(registry) : registry[k].prefix = ""
    THEN {k \in 1..Len(registry) : registry[k].prefix = ""}
    ELSE {1}

C25_ResolvesByPrefix ==
    pt # PtNone =>
        \A i \in 1..Len(pt.matches) :
            pt.matches[i].collection \in C25_Expected(pt.matches[i].at)

C25_Witness ==
    /\ pt.content = <<"P", "#", "1", " ">>
    /\ Len(pt.matches) = 1
    /\ registry[pt.matches[1].collection].prefix = "p"
    /\ registry[1].prefix = "q"

(* C26: an entry of COLLECTIONS with too few fields, or without address or  *)
(* name, is skipped without affecting the others: every entry that is well  *)
(* formed for its position is registered under its prefix (with its own     *)
(* name unless a later well-formed entry takes the same prefix), whatever   *)
(* malformed entries stand before or after it; initCollections fails with   *)
(* the no-collections error only when no collection results.                *)
C26_HasPrefix(k) == k # 1 \/ ~isEthAddress(PartAt(env.entries[k], 1))

C26_Address(k) == PartAt(env.entries[k], IF C26_HasPrefix(k) THEN 2 ELSE 1)

C26_Name(k) == PartAt(env.entries[k], IF C26_HasPrefix(k) THEN 3 ELSE 2)

C26_Prefix(k) == IF C26_HasPrefix(k) THEN PartLower(PartAt(env.entries[k], 1)) ELSE ""

C26_WellFormed(k) ==
    /\ Len(env.entries[k]) >= (IF C26_HasPrefix(k) THEN 5 ELSE 4)
    /\ C26_Address(k) # ""
    /\ C26_Name(k) # ""

C26_MalformedSkippedAlone ==
    (boot # BootConfig /\ env.set) =>
        /\ \A k \in 1..Len(env.entries) :
              C26_WellFormed(k) =>
                \E i \in 1..Len(registry) :
                    /\ registry[i].prefix = C26_Prefix(k)
                    /\ (\A l \in (k + 1)..Len(env.entries) :
                            ~(C26_WellFormed(l) /\ C26_Prefix(l) = C26_Prefix(k)))
                       => registry[i].name = C26_Name(k)
        /\ boot = BootNoCollections <=> Len(registry) = 0
        /\ boot = BootNoCollections => \A k \in 1..Len(env.entries) : ~C26_WellFormed(k)

C26_Witness ==
    /\ boot = BootStart
    /\ env.entries = << <<"q", "0xB">>, <<"p", "0xB", "B", "1", "2">> >>
    /\ Len(registry) = 1
    /\ registry[1].name = "B"

(* C27: the legacy variables contribute a collection only when COLLECTIONS *)
(* is entirely absent: whenever COLLECTIONS is set (to a non-empty string), *)
(* no collection of the registry comes from TOKEN_ADDRESS and TOKEN_NAME.   *)
C27_LegacyOnlyWhenAbsent ==
    (boot # BootConfig /\ env.set /\ env.entries # << <<"">> >>) =>
        \A i \in 1..Len(registry) : registry[i].name # "Legacy"

\* what the code does: the legacy variables are used exactly when
\* COLLECTIONS yields no collection
C27_LegacyWhenNoneParsed ==
    boot # BootConfig =>
        ((\E i \in 1..Len(registry) : registry[i].name = "Legacy")
            <=> (/\ Len(parseCollections(env)) = 0
                 /\ env.TOKEN_ADDRESS # "" /\ env.TOKEN_NAME # ""))

(* C28: a fetch function other than fetchNFT never throws; when its request *)
(* is rejected or answered with a non-2xx status (other than the 404 of the *)
(* best-offer and best-listing endpoints) it has appended an error line to  *)
(* userLog and resolves to undefined, or to the empty list for              *)
(* fetchAccountNFTs; the 404 of those two endpoints resolves to undefined.  *)
C28_Failed ==
    \/ rq.outcome \in {"reject", "status500"}
    \/ rq.outcome = "status404" /\ rq.fn \notin {"fetchBestOffer", "fetchBestListing"}

C28_Absent == IF rq.fn = "fetchAccountNFTs" THEN "[]" ELSE ValUndefined

C28_FetchersNeverThrow ==
    (rq.pc = "done" /\ rq.fn \in ApiFns \ {"fetchNFT"}) =>
        /\ rq.raised = NoError
        /\ C28_Failed =>
              /\ Len(rq.userLog) > 0
              /\ rq.userLog[Len(rq.userLog)] = FetchErrorLine
              /\ rq.result = C28_Absent
        /\ (rq.outcome = "status404" /\ ~C28_Failed) => rq.result = ValUndefined

C28_Witness ==
    /\ rq.pc = "done"
    /\ rq.fn = "fetchAccountNFTs"
    /\ rq.outcome = "reject"
    /\ rq.userLog = <<FetchErrorLine>>
    /\ rq.result = "[]"
    /\ rq.raised = NoError

(* C29: fetchNFT throws an NFTNotFoundError that carries the collection and *)
(* the token id of the call whenever the request is rejected, answered with *)
(* a non-2xx status, or answered without the item; when it does not throw   *)
(* it resolves to the item, never to an absent value.                       *)
C29_FetchNFTThrowsNotFound ==
    (rq.pc = "done" /\ rq.fn = "fetchNFT") =>
        /\ rq.outcome # "okData" => rq.raised = NFTNotFoundError(rq.key, rq.tokenId)
        /\ rq.raised = NoError => rq.result \notin {ValUndefined, EmptyBody}
        /\ rq.raised.name \in {"none", "NFTNotFoundError"}

C29_Witness ==
    /\ rq.pc = "done"
    /\ rq.fn = "fetchNFT"
    /\ rq.outcome = "status404"
    /\ rq.raised = NFTNotFoundError("polygon:0xA", 2)
    /\ rq.result = ValUndefined

(* C30: once a slug lookup has succeeded for a chain and address, a lookup  *)
(* of the same pair made while the entry is cached returns that slug and    *)
(* sends no remote request, whatever the remote API would answer by then; a *)
(* lookup that fails leaves slugMap and slugCache as they were.             *)
C30_CachedSlugReturned ==
    (rq.pc = "done" /\ rq.fn = "fetchCollectionSlug"
        /\ rq.known # ValUndefined /\ rq.cached)
    => (rq.result = rq.known /\ rq.requests = 0)

C30_FailureCachesNothing ==
    (rq.fn = "fetchCollectionSlug" /\ rq.pc = "fetching"
        /\ rq'.pc = "done" /\ rq'.result = ValUndefined)
    => (slugMap' = slugMap /\ slugCache' = slugCache)

C30_SlugCachedAfterSuccess ==
    [] C30_CachedSlugReturned /\ [][C30_FailureCachesNothing]_vars

C30_Witness ==
    /\ rq.pc = "done"
    /\ rq.fn = "fetchCollectionSlug"
    /\ rq.known # ValUndefined
    /\ rq.cached
    /\ rq.result = rq.known
    /\ rq.requests = 0
    /\ remote[rq.key] # rq.result

(* C40: between any two cache operations the key set of the value map      *)
(* equals the set of keys in the order list and the order list holds no key *)
(* twice, for every sequence of get/put/delete/clear over any keys, the key *)
(* undefined included.                                                      *)
C40_MapAndOrderAgree ==
    /\ DOMAIN lruCache = Elems(lruOrder)
    /\ NoDup(lruOrder)

\* what the code keeps: the order list holds no key twice and only keys of
\* the map, and the only key of the map it can lack is undefined
C40_OrderWithinMap ==
    /\ NoDup(lruOrder)
    /\ Elems(lruOrder) \subseteq DOMAIN lruCache
    /\ (DOMAIN lruCache) \ Elems(lruOrder) \subseteq {undefined}

(* C32: a reply to one message holds at most 6 cards, built only from the  *)
(* first 6 matches in text order: buildEmbed is never started for a match   *)
(* beyond the sixth, the cards collected so far are at most one per match   *)
(* already handled, and what is sent is the cards collected.                *)
C32_AtMostSixCards ==
    /\ Len(msg.embeds) <= MAX_EMBEDS_PER_MESSAGE
    /\ Len(msg.reply) <= MAX_EMBEDS_PER_MESSAGE
    /\ msg.pc \in {"slug", "nft", "meta", "owner"} =>
          (msg.i <= MAX_EMBEDS_PER_MESSAGE /\ msg.i <= Len(msg.matches))
    /\ msg.pc # "idle" => Len(msg.embeds) <= msg.i
    /\ msg.pc \in {"slug", "nft", "meta", "owner"} => Len(msg.embeds) < msg.i
    /\ \A j \in 1..Len(msg.embeds) :
          \E k \in 1..MAX_EMBEDS_PER_MESSAGE :
              k <= Len(msg.matches) /\ msg.embeds[j] = msg.matches[k]
    /\ msg.reply # <<>> => msg.reply = msg.embeds

C32_Witness ==
    /\ msg.pc = "done"
    /\ Len(msg.matches) > MAX_EMBEDS_PER_MESSAGE
    /\ Len(msg.reply) = MAX_EMBEDS_PER_MESSAGE

(* C33: while one card is built, getUsername is awaited only after the     *)
(* item fetch of that very match has resolved; when the item fetch failed   *)
(* the lookup is not made and the message is over.                          *)
C33_OwnerAfterFetch ==
    /\ msg.pc = "owner" => (msg.fetched = msg.i /\ ~msg.nftFailed)
    /\ msg.nftFailed => msg.pc = "done"

C33_OwnerOnlyFromMetadata ==
    (msg'.pc = "owner" /\ msg.pc # "owner") => (msg.pc = "meta" /\ msg.fetched = msg.i)

C33_OwnerLookupNeedsItem ==
    [] C33_OwnerAfterFetch /\ [][C33_OwnerOnlyFromMetadata]_vars

C33_Witness ==
    /\ msg.pc = "owner"
    /\ msg.i = 2
    /\ msg.fetched = 2

(* C34 as stated: the firings of an interval entry with n > 1 targets post  *)
(* from its targets in configured order cyclically, starting with the       *)
(* first; an entry with one target always uses it.                          *)
C34_TargetsOf(id) == (CHOOSE e \in SharedChannelEntries : e.id = id).targets

C34_FiringsOf(id) == {f \in Firings : fr[f].entry = id}

\* the position in the entry's targets that its k-th firing must use
C34_Position(id, k) == ((k - 1) % Len(C34_TargetsOf(id))) + 1

C34_RotatesPerEntry ==
    \A f \in Firings :
        fr[f].entry # 0 =>
            fr[f].used = C34_TargetsOf(fr[f].entry)[
                C34_Position(fr[f].entry,
                             Cardinality({g \in C34_FiringsOf(fr[f].entry) : g <= f}))]

\* what the code does: the rotation counter belongs to the channel, so the
\* firings of all the entries of one channel that have several targets
\* advance one counter together
C34_RotatesPerChannel ==
    \A f \in Firings :
        fr[f].entry # 0 =>
            LET e == CHOOSE x \in SharedChannelEntries : x.id = fr[f].entry
                before == {g \in 1..(f - 1) :
                              \E x \in SharedChannelEntries :
                                  /\ x.id = fr[g].entry
                                  /\ x.channelId = e.channelId
                                  /\ Len(x.targets) > 1}
            IN  fr[f].used = e.targets[(Cardinality(before) % Len(e.targets)) + 1]

(* C36: when the item fetch fails during a periodic random post the timer  *)
(* callback contains the failure: no error escapes the callback (its        *)
(* promise does not reject), nothing is sent and nothing is added to the    *)
(* recency list.                                                            *)
C36_FetchFailureContained ==
    \A f \in Firings :
        /\ (fr[f].pc = "rejected" /\ ~fr[f].sendTried) => FALSE
        /\ ~fr[f].sendTried => ~fr[f].sent

\* what the code does: the callback's promise rejects with the error of the
\* item fetch; before that nothing was sent and nothing was recorded
C36_FetchFailureRejectsCleanly ==
    \A f \in Firings :
        (fr[f].pc = "rejected" /\ ~fr[f].sendTried) => (~fr[f].sent /\ ~fr[f].added)

(* C38: two periodic firings for the same channel whose executions overlap *)
(* (the later one selects its token while the earlier one is still in       *)
(* flight) do not post the same token id, unless the later firing           *)
(* exhausted its bounded attempts.                                          *)
C38_SamePost(f, g) ==
    /\ fr[f].postedTo # ""
    /\ fr[f].postedTo = fr[g].postedTo
    /\ fr[f].postedId = fr[g].postedId

C38_OverlappingFiringsDiffer ==
    \A f, g \in Firings :
        (f \in fr[g].overlaps /\ ~fr[g].exhausted) => ~C38_SamePost(f, g)

\* what the code ensures: a firing that starts after an earlier one is over
\* does not repeat its post unless it exhausted its attempts
C38_SuccessiveFiringsDiffer ==
    \A f, g \in Firings :
        (f < g /\ f \notin fr[g].overlaps /\ ~fr[g].exhausted) => ~C38_SamePost(f, g)

(* C37: whenever a save() has completed with a write and the state is not   *)
(* dirty, the file last written holds the state as it is, every mutation    *)
(* made before that moment included, also one made while the write was in   *)
(* flight.                                                                  *)
C37_CleanMeansOnDisk ==
    (~dirty /\ \E s \in Savers : sv[s].out = "written") => file = JsonFile(state)

\* what the code ensures: the file holds the state as it was when writeFile
\* was called, which is the present state if nothing was mutated since
C37_WrittenTextIsSnapshot ==
    [][\A s \in Savers :
          (sv[s].pc = "write" /\ sv'[s].out = "written" /\ sv'[s].pc = "idle")
          => (file' = JsonFile(sv[s].json) /\ ~dirty')]_vars

\* startup has a slug for every collection and has stored the total supply
\* it fetched as the maxTokenId of every dynamic collection
C35_StartupComplete ==
    /\ boot.pc = "ready"
    /\ boot.slugs = 1..Len(registry)
    /\ \A j \in 1..Len(registry) :
          registry[j].dynamicSupply
          => (j \in DOMAIN boot.supplies /\ registry[j].maxTokenId = boot.supplies[j])

(* C35: no message is handled and no periodic post fires until startup has  *)
(* obtained a slug for every collection and replaced the placeholder        *)
(* maxTokenId of every dynamic collection with its total supply; when a     *)
(* slug or a supply cannot be obtained startup aborts for good, and nothing *)
(* is ever handled.                                                         *)
C35_NothingBeforeStartup ==
    /\ []((pm # PmNone \/ ~RandomConstructed) => C35_StartupComplete)
    /\ [][boot.pc = "failed" => boot' = boot]_vars
    /\ [][(boot.pc \in {"slug", "supply"} /\ boot'.pc \notin {"failed", "supply"})
            => boot.i \in boot'.slugs]_vars

C35_Witness ==
    /\ pm # PmNone
    /\ registry[pm.collection].dynamicSupply
    /\ boot.supplies[pm.collection] > 0
    /\ pm.tokenId = registry[pm.collection].maxTokenId

C35_TimerWitness == ~RandomConstructed /\ registry[2].dynamicSupply

\* a getUsername call that has returned or thrown
C31_Returned(l) == un[l].pc = "done"

(* C31: getUsername never raises; on a cache miss with a network error or   *)
(* a non-2xx response it returns the shortened address; and when an entry   *)
(* for the address is cached, a username or the "" that marks an address    *)
(* without one, it returns the display string of that entry without any     *)
(* remote request.                                                          *)
C31_GetUsernameNeverRaises ==
    \A l \in Lookups :
        C31_Returned(l) =>
            /\ ~un[l].raised
            /\ (un[l].entry = ValUndefined
                /\ un[l].outcome \in {"reject", "status404", "status500"})
               => un[l].display = shortAddress(un[l].address)
            /\ un[l].entry # ValUndefined
               => (un[l].requests = 0
                   /\ un[l].display = DisplayOf(un[l].entry, un[l].address))

\* a failed lookup returned the short address, and a later call found the
\* "" marker in the cache and answered without a request
C31_Witness ==
    \E l, k \in Lookups :
        /\ C31_Returned(l) /\ C31_Returned(k)
        /\ un[l].outcome = "reject" /\ un[l].display = shortAddress(un[l].address)
        /\ un[k].entry = "" /\ un[k].requests = 0
        /\ un[k].display = shortAddress(un[k].address)

(* C39: once a username has been resolved for an address, every later       *)
(* getUsername call for that address returns that username (nothing is      *)
(* evicted here), even when a concurrent lookup for the same address failed *)
(* and completed afterwards.                                                *)
C39_ResolvedNameSticks ==
    \A l \in Lookups :
        (C31_Returned(l) /\ un[l].known # ValUndefined)
        => un[l].display = <<un[l].known>>

\* what the code ensures: a call answers from the entry the cache holds when
\* it is called, and the cache holds what the lookup that completed last put
C39_AnswersFromLastPut ==
    \A l \in Lookups :
        (C31_Returned(l) /\ un[l].entry # ValUndefined)
        => un[l].display = DisplayOf(un[l].entry, un[l].address)

====
